---- MODULE Spec2Model ----
(***************************************************************************)
(* Autoblog: the content-normalisation and SEO-enrichment subsystem.       *)
(*                                                                         *)
(* A Python str is a sequence of Unicode code points (<<97, 45, 50>> is    *)
(* "a-2").  Pure functions of the source are operators; each is applied by *)
(* the actions of a specification that draws its arguments in Init:        *)
(*   SpecSlug  slugify                         (seo_enhancer.py)           *)
(*   SpecPT    markdown_to_portable_text       (content_generator.py)      *)
(*   SpecKW    extract_keyword_candidates      (seo_enhancer.py)           *)
(*   SpecSEO   estimate_reading_time, generate_meta_title/_description     *)
(*   SpecEnhance  choose_internal_links, enhance_post                       *)
(*   SpecIndex load_index                      (seo_enhancer.py)           *)
(*   SpecPipeline  generate_blog_post, then enhance_post as published      *)
(*   SpecRun   run_autoblog_workflow           (main.py)                   *)
(*   Spec      publish_to_sanity, run after run on one index file          *)
(*   SpecRace  publish_to_sanity, runs overlapping                         *)
(***************************************************************************)
EXTENDS Integers, Sequences, FiniteSets, TLC

VARIABLES
    \* ---- SpecSlug
    sl_text,      \* the argument of slugify
    sl_once,      \* slugify(sl_text)
    sl_twice,     \* slugify(slugify(sl_text))
    sl_pc,        \* "off" | "start" | "once" | "twice"
    \* ---- SpecPT: one call of markdown_to_portable_text
    markdown_text, \* the argument
    lines,        \* markdown_text.split("\n")
    line_no,      \* the index in lines of the line the for loop takes next
    blocks,       \* the list being returned
    table_rows,   \* the rows collected for the table in progress
    clock,        \* the last reading of time.time()
    pt_pc,        \* "off" | "start" | "loop" | "done"
    \* ---- SpecKW: one call of extract_keyword_candidates
    kw_title,     \* title
    kw_content,   \* content
    kw_max,       \* max_terms
    kw_out,       \* the list returned
    kw_pc,        \* "off" | "start" | "done"
    \* ---- SpecSEO: one call of a metadata function
    seo_title,    \* title
    seo_content,  \* content, or text
    seo_keywords, \* keywords
    seo_fn,       \* "off" | "none" | the name of the function called
    seo_minutes,  \* what estimate_reading_time returned
    seo_text,     \* what generate_meta_title or _description returned
    \* ---- SpecEnhance: one call of choose_internal_links or enhance_post
    enh_index,    \* index
    enh_post,     \* post
    enh_slug,     \* current_slug
    enh_max,      \* max_links
    enh_meta,     \* enhance_post's post_meta
    enh_picks,    \* the records random.sample picked
    enh_related,  \* the summaries returned
    enh_pc,       \* "off" | "choose" | "enhance" | "chosen" | "enhanced"
    \* ---- SpecPipeline: generate_blog_post, then the enrichment of its result
    gp_response,  \* the object the text generator answered with
    generated_data, \* generate_blog_post's generated_data
    gp_index,     \* the index load_index gave publish_to_sanity
    gp_post,      \* the post handed to enhance_post
    gp_meta,      \* enhance_post's post_meta
    gp_pc,        \* "off" | "response" | "convert" | "generated" | "enhanced" | "ValueError"
    \* ---- SpecIndex: one call of load_index
    li_file,      \* what is at the path of the index
    li_out,       \* what load_index returned or raised
    li_pc,        \* "off" | "start" | "done"
    \* ---- SpecRun: one call of run_autoblog_workflow
    manual_topic, \* whether a manual topic was given
    GEMINI_API_KEY, \* whether the key of the text generator is set
    selected_niche_name, \* the niche picked (1..4), 0 before
    specific_sub_topic, \* the sub-skill picked for the fallback, 0 before
    topic,        \* "None" | "manual" | "trend" | "fallback"
    requested,    \* the requests issued so far, by destination
    wf_attempt,   \* the passes of the generation loop made
    wf_image,     \* whether generate_blog_image gave a file
    wf_pc,        \* "off" | "topic" | "fallback" | "key" | "generate" | ... | "done"
    wf_end,       \* how the run ended, "none" before
    wf_published, \* whether the post document was created and the site deployed
    status,       \* the status autoblog_handler answered with, 0 before
    \* ---- Spec: publish_to_sanity, run by the processes of Procs
    index_file,   \* posts_index.json: the sequence of records it holds
    file_type,    \* the type of the JSON value it holds: "list", or "dict" for {};
                  \* "corrupt" when its text is not JSON (load_index gives []);
                  \* "undecodable" when its bytes are not UTF-8 (load_index
                  \* raises UnicodeDecodeError)
    calls,        \* per process: how often its latest run made each call
    succeeded,    \* per process: the calls of its latest run that succeeded
    documents,    \* the document store: the slugs of the posts created in it
    runs,         \* the number of calls of publish_to_sanity begun so far
    pc,           \* per process: where it is in publish_to_sanity
    generated_content, \* per process: the arguments generated_content, image_path
    image_asset_id, \* per process: the asset id of the uploaded image, or "None"
    index,        \* per process: the local list index
    index_type,   \* per process: the type of the value load_index returned
    desired,      \* per process: the slug handed to ensure_unique_slug
    seo_meta,     \* per process: enhanced["meta"]
    attempt,      \* per process: the loop variable of the create loop
    result        \* per process: how its last call ended

slVars == <<sl_text, sl_once, sl_twice, sl_pc>>
ptVars == <<markdown_text, lines, line_no, blocks, table_rows, clock, pt_pc>>
kwVars == <<kw_title, kw_content, kw_max, kw_out, kw_pc>>
seoVars == <<seo_title, seo_content, seo_keywords, seo_fn, seo_minutes,
             seo_text>>
enhVars == <<enh_index, enh_post, enh_slug, enh_max, enh_meta, enh_picks,
             enh_related, enh_pc>>
gpVars == <<gp_response, generated_data, gp_index, gp_post, gp_meta, gp_pc>>
liVars == <<li_file, li_out, li_pc>>
runVars == <<manual_topic, GEMINI_API_KEY, selected_niche_name,
             specific_sub_topic, topic, requested, wf_attempt, wf_image,
             wf_pc, wf_end, wf_published, status>>
pubVars == <<index_file, file_type, calls, succeeded, documents, runs, pc,
             generated_content, image_asset_id, index, index_type, desired,
             seo_meta, attempt, result>>

vars == <<slVars, ptVars, kwVars, seoVars, enhVars, gpVars, liVars, runVars,
          pubVars>>

slOthers == <<ptVars, kwVars, seoVars, enhVars, gpVars, liVars, runVars,
              pubVars>>
ptOthers == <<slVars, kwVars, seoVars, enhVars, gpVars, liVars, runVars,
              pubVars>>
kwOthers == <<slVars, ptVars, seoVars, enhVars, gpVars, liVars, runVars,
              pubVars>>
seoOthers == <<slVars, ptVars, kwVars, enhVars, gpVars, liVars, runVars,
               pubVars>>
enhOthers == <<slVars, ptVars, kwVars, seoVars, gpVars, liVars, runVars,
               pubVars>>
gpOthers == <<slVars, ptVars, kwVars, seoVars, enhVars, liVars, runVars,
              pubVars>>
liOthers == <<slVars, ptVars, kwVars, seoVars, enhVars, gpVars, runVars,
              pubVars>>
runOthers == <<slVars, ptVars, kwVars, seoVars, enhVars, gpVars, liVars,
               pubVars>>
pubOthers == <<slVars, ptVars, kwVars, seoVars, enhVars, gpVars, liVars,
               runVars>>

(***************************************************************************)
(* Characters                                                              *)
(***************************************************************************)
LF == 10
SPACE == 32
HASH == 35
QUOTE == 39
STAR == 42
COMMA == 44
HYPHEN == 45
DOT == 46
LBRACKET == 91
RBRACKET == 93
PIPE == 124
EM_DASH == 8212

Digits == 48..57
UpperAscii == 65..90
LowerAscii == 97..122

\* str.isspace / the regex class \s, on the characters the model draws
\* (9 is TAB, 160 is NO-BREAK SPACE)
IsSpace(c) == c \in {9, LF, SPACE, 160}

\* the regex class \w (str.isalnum or "_")
\* (95 is "_", 201 and 233 are E and e WITH ACUTE)
IsWord(c) == c \in Digits \cup UpperAscii \cup LowerAscii \cup {95, 201, 233}

\* str.lower, one character
LowerChar(c) == IF c \in UpperAscii \cup {201} THEN c + 32 ELSE c

\* unicodedata.normalize("NFKD", c), one character
NFKDChar(c) ==
    CASE c = 233 -> <<101, 769>>     \* e-acute: "e", COMBINING ACUTE ACCENT
      [] c = 201 -> <<69, 769>>      \* E-acute: "E", COMBINING ACUTE ACCENT
      [] c = 160 -> <<SPACE>>
      [] c = 180 -> <<SPACE, 769>>   \* ACUTE ACCENT: " ", COMBINING ACUTE ACCENT
      [] c = 8482 -> <<84, 77>>      \* TRADE MARK SIGN: "TM"
      [] OTHER       -> <<c>>

(***************************************************************************)
(* Sequence helpers                                                        *)
(***************************************************************************)
RECURSIVE SeqsUpTo(_, _)
\* every sequence over S of length at most n
SeqsUpTo(S, n) ==
    IF n = 0 THEN {<<>>}
    ELSE LET shorter == SeqsUpTo(S, n - 1)
         IN  shorter \cup {Append(q, x) : q \in {r \in shorter : Len(r) = n - 1}, x \in S}

Range(q) == {q[i] : i \in 1..Len(q)}

MinOf(S) == CHOOSE x \in S : \A y \in S : x <= y
MaxOf(S) == CHOOSE x \in S : \A y \in S : x >= y

RECURSIVE Concat(_)
\* "".join(parts)
Concat(parts) ==
    IF parts = <<>> THEN <<>> ELSE Head(parts) \o Concat(Tail(parts))

\* str(n) for n >= 0: the decimal digits
RECURSIVE IntToStr(_)
IntToStr(n) ==
    IF n < 10 THEN <<48 + n>> ELSE Append(IntToStr(n \div 10), 48 + (n % 10))

(***************************************************************************)
(* slugify  (seo_enhancer.py 29-32)                                        *)
(***************************************************************************)
\* unicodedata.normalize("NFKD", text)
NFKD(text) == Concat([i \in 1..Len(text) |-> NFKDChar(text[i])])

\* the characters re.sub(r"[^\w\s-]", "", text) deletes, as a bug would have
\* it: the hyphen left out of the class
IsKeptChar_NoHyphen(c) == IsWord(c) \/ IsSpace(c)

\* the complement of the class [^\w\s-]
IsKeptChar(c) == IsWord(c) \/ IsSpace(c) \/ c = HYPHEN

\* re.sub(r"[^\w\s-]", "", text)
DeleteOthers(text) == SelectSeq(text, IsKeptChar)

\* str.strip(): whitespace off both ends
RECURSIVE LStrip(_)
LStrip(text) ==
    IF text # <<>> /\ IsSpace(Head(text)) THEN LStrip(Tail(text)) ELSE text

RECURSIVE RStrip(_)
RStrip(text) ==
    IF text # <<>> /\ IsSpace(text[Len(text)])
    THEN RStrip(SubSeq(text, 1, Len(text) - 1))
    ELSE text

\* str.strip() as a bug would have it: left out
Strip_Missing(text) == text

Strip(text) == LStrip(RStrip(text))

\* str.lower()
Lower(text) == [i \in 1..Len(text) |-> LowerChar(text[i])]

IsHyphenOrSpace(c) == c = HYPHEN \/ IsSpace(c)

\* re.sub(r"[-\s]+", "-", text): every maximal run becomes one hyphen
RECURSIVE CollapseRuns(_, _)
CollapseRuns(text, inRun) ==
    IF text = <<>> THEN <<>>
    ELSE IF IsHyphenOrSpace(Head(text))
         THEN (IF inRun THEN <<>> ELSE <<HYPHEN>>) \o CollapseRuns(Tail(text), TRUE)
         ELSE <<Head(text)>> \o CollapseRuns(Tail(text), FALSE)

slugify(text) == CollapseRuns(Lower(Strip(DeleteOthers(NFKD(text)))), FALSE)

(***************************************************************************)
(* SpecSlug: slugify applied once, then again to its own result            *)
(***************************************************************************)
MaxSlugLen == 4

\* "a", "A", e-acute, " ", "-", "!", "_", and two characters that are not
\* word characters but decompose into one: ACUTE ACCENT and TRADE MARK SIGN
SlugAlphabet == {97, 65, 233, SPACE, HYPHEN, 33, 95, 180, 8482}

SlugOff ==
    /\ sl_text = <<>>
    /\ sl_once = <<>>
    /\ sl_twice = <<>>
    /\ sl_pc = "off"

PTOff ==
    /\ markdown_text = <<>>
    /\ lines = <<>>
    /\ line_no = 0
    /\ blocks = <<>>
    /\ table_rows = <<>>
    /\ clock = 0
    /\ pt_pc = "off"

KWOff ==
    /\ kw_title = <<>>
    /\ kw_content = <<>>
    /\ kw_max = 0
    /\ kw_out = <<>>
    /\ kw_pc = "off"

SeoOff ==
    /\ seo_title = <<>>
    /\ seo_content = <<>>
    /\ seo_keywords = <<>>
    /\ seo_fn = "off"
    /\ seo_minutes = 0
    /\ seo_text = <<>>

RunOff ==
    /\ manual_topic = FALSE
    /\ GEMINI_API_KEY = FALSE
    /\ selected_niche_name = 0
    /\ specific_sub_topic = 0
    /\ topic = "None"
    /\ requested = [d \in {"trends", "generation", "image", "store", "webhook"} |-> 0]
    /\ wf_attempt = 0
    /\ wf_image = FALSE
    /\ wf_pc = "off"
    /\ wf_end = "none"
    /\ wf_published = [created |-> FALSE, deployed |-> FALSE]
    /\ status = 0

IndexOff ==
    /\ li_file = [kind |-> "absent"]
    /\ li_out = [exception |-> "None"]
    /\ li_pc = "off"

Procs == {1, 2}

NoContent == [title |-> <<>>, slug |-> <<>>, category |-> "general", image_path |-> FALSE]
NoMeta == [title |-> <<>>, slug |-> <<>>, category |-> "general"]

\* no generated content yet
NoData == [title |-> <<>>, slug |-> <<>>]

PipeOff ==
    /\ gp_response = NoData
    /\ generated_data = NoData
    /\ gp_index = <<>>
    /\ gp_post = NoMeta
    /\ gp_meta = NoMeta
    /\ gp_pc = "off"

EnhOff ==
    /\ enh_index = <<>>
    /\ enh_post = NoContent
    /\ enh_slug = <<>>
    /\ enh_max = 0
    /\ enh_meta = NoMeta
    /\ enh_picks = <<>>
    /\ enh_related = <<>>
    /\ enh_pc = "off"

\* no call made yet
NoCalls ==
    [c \in {"author", "upload", "load", "save", "create", "webhook"} |-> 0]

PubOff ==
    /\ index_file = <<>>
    /\ file_type = "list"
    /\ calls = [r \in Procs |-> NoCalls]
    /\ succeeded = [r \in Procs |-> {}]
    /\ documents = {}
    /\ index_type = [r \in Procs |-> "list"]
    /\ runs = 0
    /\ pc = [r \in Procs |-> "off"]
    /\ generated_content = [r \in Procs |-> NoContent]
    /\ image_asset_id = [r \in Procs |-> "None"]
    /\ index = [r \in Procs |-> <<>>]
    /\ desired = [r \in Procs |-> <<>>]
    /\ seo_meta = [r \in Procs |-> NoMeta]
    /\ attempt = [r \in Procs |-> 0]
    /\ result = [r \in Procs |-> "none"]

SlugInit ==
    /\ sl_text \in SeqsUpTo(SlugAlphabet, MaxSlugLen)
    /\ sl_once = <<>>
    /\ sl_twice = <<>>
    /\ sl_pc = "start"
    /\ PTOff
    /\ KWOff
    /\ SeoOff
    /\ EnhOff
    /\ PipeOff
    /\ IndexOff
    /\ RunOff
    /\ PubOff

SlugifyOnce ==
    /\ sl_pc = "start"
    /\ sl_once' = slugify(sl_text)
    /\ sl_pc' = "once"
    /\ UNCHANGED <<sl_text, sl_twice, slOthers>>

SlugifyTwice ==
    /\ sl_pc = "once"
    /\ sl_twice' = slugify(sl_once)
    /\ sl_pc' = "twice"
    /\ UNCHANGED <<sl_text, sl_once, slOthers>>

SlugNext == SlugifyOnce \/ SlugifyTwice

SpecSlug == SlugInit /\ [][SlugNext]_vars

(***************************************************************************)
(* markdown_to_portable_text  (content_generator.py 14-96)                 *)
(***************************************************************************)
\* text.split(sep) for a one-character sep
Split(text, sep) ==
    LET at     == {i \in 1..Len(text) : text[i] = sep}
        \* the position of the k-th separator; 0 and Len(text) + 1 bound the text
        cut(k) == IF k = 0 THEN 0
                  ELSE IF k > Cardinality(at) THEN Len(text) + 1
                  ELSE CHOOSE p \in at : Cardinality({q \in at : q < p}) = k - 1
    IN  [k \in 1..(Cardinality(at) + 1) |-> SubSeq(text, cut(k - 1) + 1, cut(k) - 1)]

\* line.strip("|"): every leading and every trailing pipe goes
RECURSIVE LStripPipes(_)
LStripPipes(text) ==
    IF text # <<>> /\ Head(text) = PIPE THEN LStripPipes(Tail(text)) ELSE text

RECURSIVE RStripPipes(_)
RStripPipes(text) ==
    IF text # <<>> /\ text[Len(text)] = PIPE
    THEN RStripPipes(SubSeq(text, 1, Len(text) - 1))
    ELSE text

StripPipes(text) == LStripPipes(RStripPipes(text))

\* [c.strip() for c in line.strip("|").split("|")]
row_cells(line) ==
    LET parts == Split(StripPipes(line), PIPE)
    IN  [i \in 1..Len(parts) |-> Strip(parts[i])]

\* line.replace("—", "-")
ReplaceEmDash(text) ==
    [i \in 1..Len(text) |-> IF text[i] = EM_DASH THEN HYPHEN ELSE text[i]]

\* .replace("**", ""): left to right, occurrences do not overlap
RECURSIVE RemoveDoubleStars(_)
RemoveDoubleStars(text) ==
    IF Len(text) >= 2 /\ text[1] = STAR /\ text[2] = STAR
    THEN RemoveDoubleStars(SubSeq(text, 3, Len(text)))
    ELSE IF text = <<>> THEN <<>>
    ELSE <<Head(text)>> \o RemoveDoubleStars(Tail(text))

IsNotStar(c) == c # STAR

\* .replace("*", "")
RemoveStars(text) == SelectSeq(text, IsNotStar)

\* text.split(): the maximal runs of non-whitespace
RECURSIVE SplitWhitespaceAcc(_, _)
SplitWhitespaceAcc(text, cur) ==
    IF text = <<>> THEN (IF cur = <<>> THEN <<>> ELSE <<cur>>)
    ELSE IF IsSpace(Head(text))
         THEN (IF cur = <<>> THEN <<>> ELSE <<cur>>) \o SplitWhitespaceAcc(Tail(text), <<>>)
         ELSE SplitWhitespaceAcc(Tail(text), Append(cur, Head(text)))

SplitWhitespace(text) == SplitWhitespaceAcc(text, <<>>)

\* sep.join(parts)
RECURSIVE Join(_, _)
Join(sep, parts) ==
    IF parts = <<>> THEN <<>>
    ELSE IF Len(parts) = 1 THEN parts[1]
    ELSE parts[1] \o sep \o Join(sep, Tail(parts))

\* lines 56-58: the text cleaning
clean_text(line) ==
    Join(<<SPACE>>, SplitWhitespace(RemoveStars(RemoveDoubleStars(ReplaceEmDash(line)))))

\* the number of leading characters of text that are digits
RECURSIVE LeadingDigits(_)
LeadingDigits(text) ==
    IF text # <<>> /\ Head(text) \in Digits THEN 1 + LeadingDigits(Tail(text)) ELSE 0

\* re.match(r"^\d+\.\s+", text)
MatchesNumbered(text) ==
    LET d == LeadingDigits(text)
    IN  /\ d >= 1
        /\ Len(text) >= d + 2
        /\ text[d + 1] = DOT
        /\ IsSpace(text[d + 2])

\* text.startswith(prefix)
StartsWith(text, prefix) ==
    Len(text) >= Len(prefix) /\ SubSeq(text, 1, Len(prefix)) = prefix

\* lines 60-76 as a bug would have it: line 67 not commented out, so that
\* the number prefix is removed
heading_of_NumberRemoved(text) ==
    IF MatchesNumbered(text)
    THEN [style |-> "h2", text |-> Strip(SubSeq(text, LeadingDigits(text) + 2, Len(text)))]
    ELSE IF StartsWith(text, <<HASH, HASH, SPACE>>)
    THEN [style |-> "h2", text |-> Strip(SubSeq(text, 4, Len(text)))]
    ELSE IF StartsWith(text, <<HASH, SPACE>>)
    THEN [style |-> "h1", text |-> Strip(SubSeq(text, 3, Len(text)))]
    ELSE [style |-> "normal", text |-> text]

\* lines 60-76: style and text of a cleaned line
heading_of(text) ==
    IF MatchesNumbered(text)
    THEN [style |-> "h2", text |-> text]
    ELSE IF StartsWith(text, <<HASH, HASH, SPACE>>)
    THEN [style |-> "h2", text |-> Strip(SubSeq(text, 4, Len(text)))]
    ELSE IF StartsWith(text, <<HASH, SPACE>>)
    THEN [style |-> "h1", text |-> Strip(SubSeq(text, 3, Len(text)))]
    ELSE [style |-> "normal", text |-> text]

\* the style names as Python strings: "normal", "h1", "h2"
StyleStr(style) ==
    CASE style = "normal" -> <<110, 111, 114, 109, 97, 108>>
      [] style = "h1"     -> <<104, 49>>
      [] style = "h2"     -> <<104, 50>>

\* str(hash(x)): hash is a deterministic function of the string within one
\* process; it is taken here as free of collisions, the best case for the
\* keys, so two keys are equal exactly when the hashed strings are
HashKey(x) == [hash_of |-> x]

\* str(rows): the repr of a list of lists of str
ReprCell(cell) == <<QUOTE>> \o cell \o <<QUOTE>>
ReprRow(row) ==
    <<LBRACKET>> \o Join(<<COMMA, SPACE>>, [i \in 1..Len(row) |-> ReprCell(row[i])])
                 \o <<RBRACKET>>
ReprRows(rows) ==
    <<LBRACKET>> \o Join(<<COMMA, SPACE>>, [i \in 1..Len(rows) |-> ReprRow(rows[i])])
                 \o <<RBRACKET>>

\* lines 79-90: the block of a text line, made at clock reading t
text_block(text, style, t) ==
    [type |-> "block", style |-> style, text |-> text,
     key |-> HashKey(text \o StyleStr(style) \o IntToStr(t))]

\* lines 27-36, flush_table: the blocks after the call, at clock reading t
flush_table(bs, rows, t) ==
    IF rows # <<>>
    THEN Append(bs, [type |-> "table", rows |-> rows,
                     key |-> HashKey(ReprRows(rows) \o IntToStr(t))])
    ELSE bs

(***************************************************************************)
(* SpecPT: the for loop of markdown_to_portable_text, a line per step      *)
(***************************************************************************)
MaxDocLen == 4
MaxClock == 2

\* "|", "#", "1", ".", " ", "*", "a", em dash, "\n"
PTAlphabet == {PIPE, HASH, 49, DOT, SPACE, STAR, 97, EM_DASH, LF}

\* longer documents, beyond the exhaustive short ones
SampleDocs ==
    {
      \* '1. Intro\n| A | B |\n| 1 | 2 |\nSome text'
      <<49, 46, 32, 73, 110, 116, 114, 111, 10, 124, 32, 65, 32, 124, 32, 66, 32, 124, 10, 124, 32, 49, 32, 124, 32, 50, 32, 124, 10, 83, 111, 109, 101, 32, 116, 101, 120, 116>>,
      \* '| a |\n\n| b |\ntext'
      <<124, 32, 97, 32, 124, 10, 10, 124, 32, 98, 32, 124, 10, 116, 101, 120, 116>>,
      \* 'text\n| a | b |'
      <<116, 101, 120, 116, 10, 124, 32, 97, 32, 124, 32, 98, 32, 124>>,
      \* 'same\nsame'
      <<115, 97, 109, 101, 10, 115, 97, 109, 101>>,
      \* '## Head\n# Top\n### x'
      <<35, 35, 32, 72, 101, 97, 100, 10, 35, 32, 84, 111, 112, 10, 35, 35, 35, 32, 120>>,
      \* '||a||b||'
      <<124, 124, 97, 124, 124, 98, 124, 124>>,
      \* '**bold** and *it* \u2014 dash'
      <<42, 42, 98, 111, 108, 100, 42, 42, 32, 97, 110, 100, 32, 42, 105, 116, 42, 32, 8212, 32, 100, 97, 115, 104>>,
      \* '12.  Two  spaces'
      <<49, 50, 46, 32, 32, 84, 119, 111, 32, 32, 115, 112, 97, 99, 101, 115>>,
      \* '| a |\ntext\n| b |\n \n\n| c |'
      <<124, 32, 97, 32, 124, 10, 116, 101, 120, 116, 10, 124, 32, 98, 32, 124, 10, 32, 10, 10, 124, 32, 99, 32, 124>>,
      \* '# **\n1.\n1. *'
      <<35, 32, 42, 42, 10, 49, 46, 10, 49, 46, 32, 42>>
    }

\* time.time() read again: not before the last reading, and possibly equal
\* to it (two reads within the clock's resolution)
Readings == {t \in clock..(clock + 1) : t <= MaxClock}

PTInit ==
    /\ markdown_text \in SeqsUpTo(PTAlphabet, MaxDocLen) \cup SampleDocs
    /\ lines = <<>>
    /\ line_no = 0
    /\ blocks = <<>>
    /\ table_rows = <<>>
    /\ clock = 0
    /\ pt_pc = "start"
    /\ SlugOff
    /\ KWOff
    /\ SeoOff
    /\ EnhOff
    /\ PipeOff
    /\ IndexOff
    /\ RunOff
    /\ PubOff

\* lines 23-25
PTBegin ==
    /\ pt_pc = "start"
    /\ lines' = Split(markdown_text, LF)
    /\ line_no' = 1
    /\ blocks' = <<>>
    /\ table_rows' = <<>>
    /\ pt_pc' = "loop"
    /\ UNCHANGED <<markdown_text, clock, ptOthers>>

CurrentLine == Strip(lines[line_no])

\* lines 39-41: a blank line
PTBlankLine ==
    /\ pt_pc = "loop"
    /\ line_no <= Len(lines)
    /\ CurrentLine = <<>>
    /\ line_no' = line_no + 1
    /\ UNCHANGED <<markdown_text, lines, blocks, table_rows, clock, pt_pc, ptOthers>>

\* lines 44-49: a line holding a pipe
PTTableLine ==
    /\ pt_pc = "loop"
    /\ line_no <= Len(lines)
    /\ CurrentLine # <<>>
    /\ PIPE \in Range(CurrentLine)
    /\ table_rows' = Append(table_rows, row_cells(CurrentLine))
    /\ line_no' = line_no + 1
    /\ UNCHANGED <<markdown_text, lines, blocks, clock, pt_pc, ptOthers>>

\* lines 52-91: any other line; flush_table reads the clock only when it
\* has rows to flush, the block's key reads it always
PTTextLine ==
    /\ pt_pc = "loop"
    /\ line_no <= Len(lines)
    /\ CurrentLine # <<>>
    /\ PIPE \notin Range(CurrentLine)
    /\ \E t1 \in Readings :
         \E t2 \in {t \in t1..(t1 + 1) : t <= MaxClock} :
           LET h == heading_of(clean_text(CurrentLine))
               flushed == flush_table(blocks, table_rows, t1)
           IN  /\ table_rows # <<>> \/ t1 = clock
               /\ blocks' = Append(flushed, text_block(h.text, h.style, t2))
               /\ clock' = t2
    /\ table_rows' = <<>>
    /\ line_no' = line_no + 1
    /\ UNCHANGED <<markdown_text, lines, pt_pc, ptOthers>>

\* lines 93-96, as a bug would have it: the rows pending at the end dropped
PTEnd_NoFlush ==
    /\ pt_pc = "loop"
    /\ line_no > Len(lines)
    /\ table_rows' = <<>>
    /\ pt_pc' = "done"
    /\ UNCHANGED <<markdown_text, lines, line_no, blocks, clock, ptOthers>>

\* lines 93-96: the last flush and the return
PTEnd ==
    /\ pt_pc = "loop"
    /\ line_no > Len(lines)
    /\ \E t \in Readings :
         /\ table_rows # <<>> \/ t = clock
         /\ blocks' = flush_table(blocks, table_rows, t)
         /\ clock' = t
    /\ table_rows' = <<>>
    /\ pt_pc' = "done"
    /\ UNCHANGED <<markdown_text, lines, line_no, ptOthers>>

PTNext == PTBegin \/ PTBlankLine \/ PTTableLine \/ PTTextLine \/ PTEnd

SpecPT == PTInit /\ [][PTNext]_vars

(***************************************************************************)
(* extract_keyword_candidates  (seo_enhancer.py 49-71)                     *)
(***************************************************************************)
\* re.findall(r"\w+", text): the maximal runs of word characters.
\* The runs of text[lo..hi], found by halves so that the evaluation stays
\* shallow on long texts: a run that crosses the middle is the last run of
\* the left half followed by the first run of the right half.
RECURSIVE FindWordsAcc(_, _, _)
FindWordsAcc(text, lo, hi) ==
    IF lo > hi THEN <<>>
    ELSE IF lo = hi THEN (IF IsWord(text[lo]) THEN <<<<text[lo]>>>> ELSE <<>>)
    ELSE LET mid   == (lo + hi) \div 2
             left  == FindWordsAcc(text, lo, mid)
             right == FindWordsAcc(text, mid + 1, hi)
         IN  IF IsWord(text[mid]) /\ IsWord(text[mid + 1])
             THEN SubSeq(left, 1, Len(left) - 1)
                  \o <<left[Len(left)] \o right[1]>>
                  \o SubSeq(right, 2, Len(right))
             ELSE left \o right

FindWords(text) == FindWordsAcc(text, 1, Len(text))

IsLong(w) == Len(w) > 3

\* line 50: [w.lower() for w in re.findall(r"\w+", title) if len(w) > 3]
title_terms(title) ==
    LET ws == SelectSeq(FindWords(title), IsLong)
    IN  [i \in 1..Len(ws) |-> Lower(ws[i])]

\* lines 52-56: the loop over the title terms; returned tells whether the
\* function returned from inside the loop
RECURSIVE TitleLoop(_, _, _)
TitleLoop(terms, keywords, max_terms) ==
    IF terms = <<>> THEN [returned |-> FALSE, keywords |-> keywords]
    ELSE LET t  == Head(terms)
             k2 == IF t \in Range(keywords) THEN keywords ELSE Append(keywords, t)
         IN  IF Len(k2) >= max_terms
             THEN [returned |-> TRUE, keywords |-> k2]
             ELSE TitleLoop(Tail(terms), k2, max_terms)

\* the count of token t among items (0 when it has none)
CountOf(items, t) ==
    IF \E i \in 1..Len(items) : items[i].token = t
    THEN (CHOOSE it \in Range(items) : it.token = t).count
    ELSE 0

IsNewIn(items, it) == \A i \in 1..Len(items) : items[i].token # it.token

\* the dict after counting a stretch of tokens and then another: the keys of
\* the first keep their place and gain the counts of the second, the new
\* keys of the second follow in their own order
MergeFreq(first, second) ==
    [i \in 1..Len(first) |->
        [token |-> first[i].token,
         count |-> first[i].count + CountOf(second, first[i].token)]]
    \o SelectSeq(second, LAMBDA it : IsNewIn(first, it))

\* lines 58-61: the dict freq over tokens[lo..hi], as its items in insertion
\* order; counted by halves
RECURSIVE FreqItemsAcc(_, _, _)
FreqItemsAcc(tokens, lo, hi) ==
    IF lo > hi THEN <<>>
    ELSE IF lo = hi
    THEN (IF IsLong(tokens[lo]) THEN <<[token |-> tokens[lo], count |-> 1]>> ELSE <<>>)
    ELSE LET mid == (lo + hi) \div 2
         IN  MergeFreq(FreqItemsAcc(tokens, lo, mid), FreqItemsAcc(tokens, mid + 1, hi))

FreqItems(tokens, items) == MergeFreq(items, FreqItemsAcc(tokens, 1, Len(tokens)))

\* one step of a stable sort by descending count: item goes after every
\* item whose count is not smaller
RECURSIVE InsertByCount(_, _)
InsertByCount(sorted, item) ==
    IF sorted = <<>> THEN <<item>>
    ELSE IF Head(sorted).count >= item.count
         THEN <<Head(sorted)>> \o InsertByCount(Tail(sorted), item)
         ELSE <<item>> \o sorted

\* line 62: sorted(freq.items(), key=lambda x: -x[1]); sorted is stable
RECURSIVE SortedByCount(_, _)
SortedByCount(items, sorted) ==
    IF items = <<>> THEN sorted
    ELSE SortedByCount(Tail(items), InsertByCount(sorted, Head(items)))

\* lines 62-66: the loop over the sorted items, with its break
RECURSIVE FreqLoop(_, _, _)
FreqLoop(items, keywords, max_terms) ==
    IF items = <<>> THEN keywords
    ELSE LET t  == Head(items).token
             k2 == IF t \in Range(keywords) THEN keywords ELSE Append(keywords, t)
         IN  IF Len(k2) >= max_terms THEN k2
             ELSE FreqLoop(Tail(items), k2, max_terms)

\* line 67: the bigrams of tokens[i], tokens[i+1] for i in lo..hi that are
\* both long, in halves
RECURSIVE BigramsAcc(_, _, _)
BigramsAcc(tokens, lo, hi) ==
    IF lo > hi THEN <<>>
    ELSE IF lo = hi
    THEN (IF IsLong(tokens[lo]) /\ IsLong(tokens[lo + 1])
          THEN <<tokens[lo] \o <<SPACE>> \o tokens[lo + 1]>>
          ELSE <<>>)
    ELSE LET mid == (lo + hi) \div 2
         IN  BigramsAcc(tokens, lo, mid) \o BigramsAcc(tokens, mid + 1, hi)

Bigrams(tokens) == BigramsAcc(tokens, 1, Len(tokens) - 1)

\* lines 68-70: the loop over bigrams[from..]; it changes keywords only at
\* the first bigram that is not in it yet, and not at all once the list is
\* full
RECURSIVE BigramLoopAcc(_, _, _, _)
BigramLoopAcc(bigrams, from, keywords, max_terms) ==
    LET fresh == {i \in from..Len(bigrams) : bigrams[i] \notin Range(keywords)}
    IN  IF fresh = {} \/ Len(keywords) >= max_terms THEN keywords
        ELSE LET i == CHOOSE k \in fresh : \A j \in fresh : k <= j
             IN  BigramLoopAcc(bigrams, i + 1, Append(keywords, bigrams[i]), max_terms)

BigramLoop(bigrams, keywords, max_terms) ==
    BigramLoopAcc(bigrams, 1, keywords, max_terms)

\* keywords[:n] for n >= 0
Take(q, n) == SubSeq(q, 1, IF n < Len(q) THEN n ELSE Len(q))

extract_keyword_candidates(title, content, max_terms) ==
    LET afterTitle == TitleLoop(title_terms(title), <<>>, max_terms)
        tokens     == FindWords(Lower(content))
        afterFreq  == FreqLoop(SortedByCount(FreqItems(tokens, <<>>), <<>>),
                               afterTitle.keywords, max_terms)
        afterGrams == BigramLoop(Bigrams(tokens), afterFreq, max_terms)
    IN  IF afterTitle.returned THEN afterTitle.keywords
        ELSE Take(afterGrams, max_terms)

(***************************************************************************)
(* SpecKW: one call of extract_keyword_candidates                          *)
(***************************************************************************)
MaxTitleWords == 2
MaxBodyWords == 4
MaxTerms == 3

\* "data", "Tool", "ai", "tool"
KWWords == {<<100, 97, 116, 97>>, <<84, 111, 111, 108>>, <<97, 105>>,
            <<116, 111, 111, 108>>}

\* the words of ws with one space between them
Sentence(ws) == Join(<<SPACE>>, ws)

KWInit ==
    /\ kw_title \in {Sentence(ws) : ws \in SeqsUpTo(KWWords, MaxTitleWords)}
    /\ kw_content \in {Sentence(ws) : ws \in SeqsUpTo(KWWords, MaxBodyWords)}
    /\ kw_max \in 0..MaxTerms
    /\ kw_out = <<>>
    /\ kw_pc = "start"
    /\ SlugOff
    /\ PTOff
    /\ SeoOff
    /\ EnhOff
    /\ PipeOff
    /\ IndexOff
    /\ RunOff
    /\ PubOff

KWExtract ==
    /\ kw_pc = "start"
    /\ kw_out' = extract_keyword_candidates(kw_title, kw_content, kw_max)
    /\ kw_pc' = "done"
    /\ UNCHANGED <<kw_title, kw_content, kw_max, kwOthers>>

KWNext == KWExtract

SpecKW == KWInit /\ [][KWNext]_vars

\* C9 (as claimed): for every title, body and limit N the list returned has
\* at most N entries, and no entry occurs in it twice.
C9_AtMostNDistinct ==
    kw_pc = "done" =>
        /\ Len(kw_out) <= kw_max
        /\ \A i, j \in 1..Len(kw_out) : i # j => kw_out[i] # kw_out[j]

\* the first occurrences of q's elements, in order
RECURSIVE Dedup(_, _)
Dedup(q, seen) ==
    IF q = <<>> THEN <<>>
    ELSE IF Head(q) \in seen THEN Dedup(Tail(q), seen)
    ELSE <<Head(q)>> \o Dedup(Tail(q), seen \cup {Head(q)})

CountIn(q, x) == Cardinality({i \in 1..Len(q) : q[i] = x})
FirstIn(q, x) == MinOf({i \in 1..Len(q) : q[i] = x})

\* the list as C10 describes it: the long title tokens (lowercased, each
\* once) in title order; the long body tokens not among them, by falling
\* frequency and then by first occurrence; the bigrams of long neighbours in
\* body order; all cut at N
ClaimedKeywords(title, content, n) ==
    LET tt     == Dedup(title_terms(title), {})
        tokens == FindWords(Lower(content))
        long   == SelectSeq(tokens, IsLong)
        cand   == Range(long) \ Range(tt)
        Before(y, x) == \/ CountIn(long, y) > CountIn(long, x)
                        \/ /\ CountIn(long, y) = CountIn(long, x)
                           /\ FirstIn(long, y) < FirstIn(long, x)
        RankOf(x) == 1 + Cardinality({y \in cand : Before(y, x)})
        byFreq == [r \in 1..Cardinality(cand) |-> CHOOSE x \in cand : RankOf(x) = r]
        grams  == Dedup(Bigrams(tokens), Range(tt) \cup cand)
    IN  Take(tt \o byFreq \o grams, n)

\* C10 (as claimed): the list returned is, in this order and cut at N, the
\* long title tokens in title order, then the long body tokens not yet
\* present by falling frequency with ties broken by first occurrence, then
\* the bigrams of long neighbours in body order not yet present.
C10_AsClaimed ==
    kw_pc = "done" => kw_out = ClaimedKeywords(kw_title, kw_content, kw_max)

\* What does hold: the same two statements for every limit N >= 1.
KW_HoldsForPositiveLimit ==
    (kw_pc = "done" /\ kw_max >= 1) =>
        /\ Len(kw_out) <= kw_max
        /\ \A i, j \in 1..Len(kw_out) : i # j => kw_out[i] # kw_out[j]
        /\ kw_out = ClaimedKeywords(kw_title, kw_content, kw_max)

(***************************************************************************)
(* short_summary, estimate_reading_time, generate_meta_title,              *)
(* generate_meta_description  (seo_enhancer.py 34-47, 83-96)               *)
(***************************************************************************)
COLON == 58

\* ORG_NAME (line 26): "GlideX Outsourcing"
ORG_NAME ==
    <<71, 108, 105, 100, 101, 88, 32, 79, 117, 116, 115, 111, 117, 114, 99,
      105, 110, 103>>

\* the literals " | ", "..." and " — " of the f-strings
Bar == <<SPACE, PIPE, SPACE>>
Ellipsis == <<DOT, DOT, DOT>>
Dash == <<SPACE, EM_DASH, SPACE>>

\* the defaults and literals of the signatures and calls
DescriptionSummaryLen == 155
MetaTitleMaxLen == 60
WordsPerMinute == 200

\* re.sub(r"\s+", " ", text) over text[lo..hi], by halves: a whitespace
\* character becomes one space when it opens its run and nothing otherwise
RECURSIVE CollapseSpaces(_, _, _)
CollapseSpaces(text, lo, hi) ==
    IF lo > hi THEN <<>>
    ELSE IF lo = hi
    THEN (IF ~IsSpace(text[lo]) THEN <<text[lo]>>
          ELSE IF lo > 1 /\ IsSpace(text[lo - 1]) THEN <<>>
          ELSE <<SPACE>>)
    ELSE LET mid == (lo + hi) \div 2
         IN  CollapseSpaces(text, lo, mid) \o CollapseSpaces(text, mid + 1, hi)

\* text.find(sub, start): the 0-based index of the first occurrence of sub
\* at or after start, -1 when there is none
Find(text, sub, start) ==
    LET at == {i \in start..(Len(text) - Len(sub)) :
                  SubSeq(text, i + 1, i + Len(sub)) = sub}
    IN  IF at = {} THEN -1 ELSE MinOf(at)

\* text.rsplit(" ", 1)[0]: what precedes the last space; text without one
BeforeLastSpace(text) ==
    LET at == {i \in 1..Len(text) : text[i] = SPACE}
    IN  IF at = {} THEN text ELSE SubSeq(text, 1, MaxOf(at) - 1)

\* text.split(":")[0]: what precedes the first colon; text without one
BeforeColon(text) ==
    LET at == {i \in 1..Len(text) : text[i] = COLON}
    IN  IF at = {} THEN text ELSE SubSeq(text, 1, MinOf(at) - 1)

\* text[:n] for n >= 0
Prefix(text, n) == SubSeq(text, 1, IF n < Len(text) THEN n ELSE Len(text))

\* lines 34-43
short_summary(text0, max_len) ==
    LET text == Strip(CollapseSpaces(text0, 1, Len(text0)))
        idx  == Find(text, <<DOT, SPACE>>, max_len \div 2)
    IN  IF text = <<>> THEN <<>>
        ELSE IF Len(text) <= max_len THEN text
        ELSE IF idx # -1 /\ idx < max_len THEN Prefix(text, idx + 1)
        ELSE BeforeLastSpace(Prefix(text, max_len)) \o Ellipsis

\* max(1, int(words / 200)) as a bug would have it: the floor of 1 left out
estimate_reading_time_NoFloor(text) == Len(FindWords(text)) \div WordsPerMinute

\* lines 45-47; words / 200 is not negative, so int() is the floor
estimate_reading_time(text) ==
    LET words   == Len(FindWords(text))
        minutes == words \div WordsPerMinute
    IN  IF minutes > 1 THEN minutes ELSE 1

\* the characters str.title() and str.lower() change
IsCased(c) == c \in UpperAscii \cup LowerAscii \cup {201, 233}
UpperChar(c) == IF c \in LowerAscii \cup {233} THEN c - 32 ELSE c

\* str.title(): a cased character is uppercased unless the character before
\* it is cased too, and lowercased then
TitleCase(text) ==
    [i \in 1..Len(text) |->
        IF i > 1 /\ IsCased(text[i - 1]) THEN LowerChar(text[i])
        ELSE UpperChar(text[i])]

\* text.replace(a, b) for single characters a and b
ReplaceChar(text, a, b) == [i \in 1..Len(text) |-> IF text[i] = a THEN b ELSE text[i]]

\* sub in text
Contains(text, sub) ==
    \E i \in 0..(Len(text) - Len(sub)) : SubSeq(text, i + 1, i + Len(sub)) = sub

\* lines 83-89
generate_meta_title(title, keywords, max_len) ==
    LET primary   == IF keywords # <<>> THEN keywords[1] ELSE BeforeColon(title)
        candidate == TitleCase(primary) \o Bar \o ORG_NAME
        short     == BeforeLastSpace(Prefix(BeforeColon(title), max_len - 4)) \o Ellipsis
    IN  IF Len(candidate) > max_len THEN short \o Bar \o ORG_NAME ELSE candidate

\* lines 91-96
generate_meta_description(title, content, keywords) ==
    LET primary == IF keywords # <<>> THEN ReplaceChar(keywords[1], HYPHEN, SPACE)
                   ELSE title
        summary == short_summary(IF content # <<>> THEN content ELSE title,
                                 DescriptionSummaryLen)
    IN  IF ~Contains(Lower(summary), Lower(primary))
        THEN TitleCase(primary) \o Dash \o summary
        ELSE summary

(***************************************************************************)
(* SpecSEO: one call of estimate_reading_time, generate_meta_title or      *)
(* generate_meta_description                                               *)
(***************************************************************************)
MaxSeoWords == 401
MaxSeoTitle == 25
MaxSeoKeyword == 41

\* unit repeated n times
Rep(unit, n) == [i \in 1..(n * Len(unit)) |-> unit[((i - 1) % Len(unit)) + 1]]

\* "ab ", "Word. ", "a", " \n"
ContentUnits == {<<97, 98, SPACE>>, <<87, 111, 114, 100, DOT, SPACE>>, <<97>>,
                 <<SPACE, LF>>}
\* "Ab ", "a", "ab: "
TitleUnits == {<<65, 98, SPACE>>, <<97>>, <<97, 98, COLON, SPACE>>}
\* "voice", "voice-ai"
KeywordVoice == <<118, 111, 105, 99, 101>>
KeywordVoiceAI == KeywordVoice \o <<HYPHEN, 97, 105>>

\* the arguments: bodies of every length with no title, titles of every
\* length with a body or none, and keyword lists with a first keyword of
\* every length
SeoCases ==
    {[title |-> <<>>, content |-> Rep(u, n), keywords |-> <<>>] :
        u \in ContentUnits, n \in 0..MaxSeoWords}
    \cup {[title |-> Rep(u, n), content |-> c, keywords |-> ks] :
            u \in TitleUnits, n \in 0..MaxSeoTitle,
            c \in {<<>>, Rep(<<97, 98, SPACE>>, 60)},
            ks \in {<<>>, <<KeywordVoice>>, <<KeywordVoiceAI, KeywordVoice>>}}
    \cup {[title |-> Rep(<<65, 98, SPACE>>, 4), content |-> Rep(u, 60),
           keywords |-> <<Rep(<<107>>, m)>>] :
            u \in ContentUnits, m \in 1..MaxSeoKeyword}

SeoInit ==
    /\ \E c \in SeoCases :
         /\ seo_title = c.title
         /\ seo_content = c.content
         /\ seo_keywords = c.keywords
    /\ seo_fn = "none"
    /\ seo_minutes = 0
    /\ seo_text = <<>>
    /\ SlugOff
    /\ PTOff
    /\ KWOff
    /\ EnhOff
    /\ PipeOff
    /\ IndexOff
    /\ RunOff
    /\ PubOff

EstimateReadingTime ==
    /\ seo_fn = "none"
    /\ seo_fn' = "estimate_reading_time"
    /\ seo_minutes' = estimate_reading_time(seo_content)
    /\ UNCHANGED <<seo_title, seo_content, seo_keywords, seo_text, seoOthers>>

GenerateMetaTitle ==
    /\ seo_fn = "none"
    /\ seo_fn' = "generate_meta_title"
    /\ seo_text' = generate_meta_title(seo_title, seo_keywords, MetaTitleMaxLen)
    /\ UNCHANGED <<seo_title, seo_content, seo_keywords, seo_minutes, seoOthers>>

GenerateMetaDescription ==
    /\ seo_fn = "none"
    /\ seo_fn' = "generate_meta_description"
    /\ seo_text' = generate_meta_description(seo_title, seo_content, seo_keywords)
    /\ UNCHANGED <<seo_title, seo_content, seo_keywords, seo_minutes, seoOthers>>

SeoNext == EstimateReadingTime \/ GenerateMetaTitle \/ GenerateMetaDescription

SpecSEO == SeoInit /\ [][SeoNext]_vars

(***************************************************************************)
(* ensure_unique_slug, enhance_post  (seo_enhancer.py 73-80, 250-298)      *)
(***************************************************************************)
\* line 74: {p.get("slug") for p in index if p.get("slug")}; an empty slug
\* is falsy and stays out of the set
ExistingSlugs(records) ==
    {records[i].slug : i \in {j \in 1..Len(records) : records[j].slug # <<>>}}

\* line 79: f"{desired_slug}-{counter}"
Numbered(desired_slug, counter) == desired_slug \o <<HYPHEN>> \o IntToStr(counter)

\* lines 75-80: the while loop, entered with slug and counter
RECURSIVE UniqueLoop(_, _, _, _)
UniqueLoop(existing, desired_slug, slug, counter) ==
    IF slug \in existing
    THEN UniqueLoop(existing, desired_slug,
                    Numbered(desired_slug, counter + 1), counter + 1)
    ELSE slug

ensure_unique_slug(records, desired_slug) ==
    UniqueLoop(ExistingSlugs(records), desired_slug, desired_slug, 1)

\* lines 254-258: the slug handed to ensure_unique_slug
desired_slug_of(post) ==
    IF post.slug = <<>> THEN slugify(post.title) ELSE slugify(post.slug)

\* lines 199-206, generate_faqs: the literals of its first question and answer
\* "What does "
FaqWhatDoes ==
    <<87, 104, 97, 116, 32, 100, 111, 101, 115, 32>>
\* " mean for my business?"
FaqMeanFor ==
    <<32, 109, 101, 97, 110, 32, 102, 111, 114, 32, 109, 121, 32, 98, 117,
      115, 105, 110, 101, 115, 115, 63>>
\* " helps reduce admin load and improve efficiency."
FaqHelps ==
    <<32, 104, 101, 108, 112, 115, 32, 114, 101, 100, 117, 99, 101, 32, 97,
      100, 109, 105, 110, 32, 108, 111, 97, 100, 32, 97, 110, 100, 32, 105,
      109, 112, 114, 111, 118, 101, 32, 101, 102, 102, 105, 99, 105, 101,
      110, 99, 121, 46>>

\* lines 199-206: three questions with their answers, the first built around
\* the primary keyword; the other two are literals, and the dash of
\* "1-3 weeks" in the last answer is an en dash (U+2013, code point 8211)
generate_faqs(title, keywords) ==
    LET primary == IF keywords # <<>> THEN ReplaceChar(keywords[1], HYPHEN, SPACE)
                   ELSE BeforeColon(title)
    IN  <<[q |-> FaqWhatDoes \o primary \o FaqMeanFor,
           a |-> TitleCase(primary) \o FaqHelps],
          \* "Are these services compliant and secure?"
          [q |-> <<65, 114, 101, 32, 116, 104, 101, 115, 101, 32, 115, 101,
                   114, 118, 105, 99, 101, 115, 32, 99, 111, 109, 112, 108,
                   105, 97, 110, 116, 32, 97, 110, 100, 32, 115, 101, 99,
                   117, 114, 101, 63>>,
           \* "GlideX follows strict data protocols and compliance standards."
           a |-> <<71, 108, 105, 100, 101, 88, 32, 102, 111, 108, 108, 111,
                   119, 115, 32, 115, 116, 114, 105, 99, 116, 32, 100, 97,
                   116, 97, 32, 112, 114, 111, 116, 111, 99, 111, 108, 115,
                   32, 97, 110, 100, 32, 99, 111, 109, 112, 108, 105, 97,
                   110, 99, 101, 32, 115, 116, 97, 110, 100, 97, 114, 100,
                   115, 46>>],
          \* "How quickly can we onboard a VA unit?"
          [q |-> <<72, 111, 119, 32, 113, 117, 105, 99, 107, 108, 121, 32,
                   99, 97, 110, 32, 119, 101, 32, 111, 110, 98, 111, 97,
                   114, 100, 32, 97, 32, 86, 65, 32, 117, 110, 105, 116, 63>>,
           \* "Typical onboarding is 1(en dash)3 weeks depending on role complexity and
           \* training needs."
           a |-> <<84, 121, 112, 105, 99, 97, 108, 32, 111, 110, 98, 111,
                   97, 114, 100, 105, 110, 103, 32, 105, 115, 32, 49, 8211,
                   51, 32, 119, 101, 101, 107, 115, 32, 100, 101, 112, 101,
                   110, 100, 105, 110, 103, 32, 111, 110, 32, 114, 111, 108,
                   101, 32, 99, 111, 109, 112, 108, 101, 120, 105, 116, 121,
                   32, 97, 110, 100, 32, 116, 114, 97, 105, 110, 105, 110,
                   103, 32, 110, 101, 101, 100, 115, 46>>]>>

\* lines 123-140, build_article_jsonld: the type, the headline and the
\* reading time of the Article object
build_article_jsonld(post_meta) ==
    [type         |-> "Article",
     headline     |-> post_meta.title,
     timeRequired |-> <<80, 84>> \o IntToStr(post_meta.reading_time) \o <<77>>]

\* lines 209-218, extract_headings_for_toc: the matches of
\* ^(#{2,4})\s+(.*) with MULTILINE, from position from on.  A match begins
\* at the start of a line with 2 to 4 hashes followed by whitespace; \s+
\* takes the whole run of whitespace, line feeds included, and (.*) the rest
\* of the line it ends in.
TocIdLen == 60

\* the number of hashes in a row from position s on
HashRun(content, s) ==
    LET stop == {j \in s..Len(content) : content[j] # HASH}
    IN  (IF stop = {} THEN Len(content) + 1 ELSE MinOf(stop)) - s

\* a heading begins at position s
HeadingAt(content, s) ==
    /\ s = 1 \/ content[s - 1] = LF
    /\ HashRun(content, s) \in 2..4
    /\ s + HashRun(content, s) <= Len(content)
    /\ IsSpace(content[s + HashRun(content, s)])

RECURSIVE TocFrom(_, _)
TocFrom(content, from) ==
    LET starts == {s \in from..Len(content) : HeadingAt(content, s)}
    IN  IF starts = {} THEN <<>>
        ELSE LET s     == MinOf(starts)
                 level == HashRun(content, s)
                 solid == {j \in (s + level)..Len(content) : ~IsSpace(content[j])}
                 first == IF solid = {} THEN Len(content) + 1 ELSE MinOf(solid)
                 feeds == {j \in first..Len(content) : content[j] = LF}
                 eol   == IF feeds = {} THEN Len(content) + 1 ELSE MinOf(feeds)
                 text  == Strip(SubSeq(content, first, eol - 1))
             IN  <<[level |-> level, text |-> text,
                    id |-> Prefix(slugify(text), TocIdLen)]>>
                 \o TocFrom(content, eol)

extract_headings_for_toc(content) ==
    IF content = <<>> THEN <<>> ELSE TocFrom(content, 1)

\* line 263: the default of max_terms; line 262: the length of an excerpt;
\* line 276: the default of max_links
DefaultMaxTerms == 6
ExcerptLen == 140
DefaultMaxLinks == 3

\* reading_time as a bug would have it: rounded up instead of down
enhance_post_RoundsUp(post, records) ==
    LET keywords == extract_keyword_candidates(post.title, post.content, DefaultMaxTerms)
    IN  [title            |-> post.title,
         slug             |-> ensure_unique_slug(records, desired_slug_of(post)),
         category         |-> post.category,
         content          |-> post.content,
         excerpt          |-> short_summary(post.content, ExcerptLen),
         keywords         |-> keywords,
         meta_title       |-> generate_meta_title(post.title, keywords, MetaTitleMaxLen),
         meta_description |-> generate_meta_description(post.title, post.content, keywords),
         reading_time     |-> (Len(FindWords(post.content)) + WordsPerMinute - 1)
                                  \div WordsPerMinute,
         faqs             |-> generate_faqs(post.title, keywords),
         toc              |-> extract_headings_for_toc(post.content)]

\* lines 250-298, enhance_post: post_meta without its related posts, which
\* are drawn at random (the title is not empty here: line 252 raises
\* otherwise)
enhance_post(post, records) ==
    LET keywords == extract_keyword_candidates(post.title, post.content, DefaultMaxTerms)
    IN  [title            |-> post.title,
         slug             |-> ensure_unique_slug(records, desired_slug_of(post)),
         category         |-> post.category,
         content          |-> post.content,
         excerpt          |-> short_summary(post.content, ExcerptLen),
         keywords         |-> keywords,
         meta_title       |-> generate_meta_title(post.title, keywords, MetaTitleMaxLen),
         meta_description |-> generate_meta_description(post.title, post.content, keywords),
         reading_time     |-> estimate_reading_time(post.content),
         faqs             |-> generate_faqs(post.title, keywords),
         toc              |-> extract_headings_for_toc(post.content)]

\* publisher.py lines 125-132: the post handed to enhance_post; the body is
\* generated_content.get("plain_text_body", ""), the category
\* generated_content.get("category", "general")
post_of(content) ==
    [title    |-> content.title,
     slug     |-> content.slug,
     content  |-> IF "plain_text_body" \in DOMAIN content
                  THEN content.plain_text_body ELSE <<>>,
     category |-> IF "category" \in DOMAIN content
                  THEN content.category ELSE "general"]

(***************************************************************************)
(* load_index  (seo_enhancer.py 301-306) and the json.load it calls        *)
(***************************************************************************)
LBRACE == 123
RBRACE == 125
DQUOTE == 34
BACKSLASH == 92

\* the whitespace of JSON: space, tab, line feed, carriage return
IsJsonSpace(c) == c \in {SPACE, 9, LF, 13}

\* the first position at or after i that holds no whitespace; Len(t) + 1
\* when there is none
SkipSpace(t, i) ==
    LET at == {j \in i..Len(t) : ~IsJsonSpace(t[j])}
    IN  IF at = {} THEN Len(t) + 1 ELSE MinOf(at)

\* t holds lit from position i on
HasAt(t, i, lit) == i + Len(lit) - 1 <= Len(t) /\ SubSeq(t, i, i + Len(lit) - 1) = lit

\* the value of the decimal digits ds
RECURSIVE DigitsValue(_)
DigitsValue(ds) ==
    IF ds = <<>> THEN 0
    ELSE 10 * DigitsValue(SubSeq(ds, 1, Len(ds) - 1)) + (ds[Len(ds)] - 48)

\* a failed scan, and a scan that gave the Python value val and stopped
\* before position next
Failed == [ok |-> FALSE]
Scanned(val, next) == [ok |-> TRUE, val |-> val, next |-> next]

\* the Python values, by type: [t |-> "None"], and "bool", "int", "str",
\* "list" and "dict" with what they hold
PyValue(type, held) == [t |-> type, v |-> held]
PyList(q) == PyValue("list", q)
\* a dict from its items in source order: a later item replaces an earlier
\* one with the same key
PyDict(items) ==
    PyValue("dict", [k \in {items[i][1] : i \in 1..Len(items)} |->
                        items[MaxOf({i \in 1..Len(items) : items[i][1] = k})][2]])

\* a string at position i (t[i] is the quote): it ends at the next quote and
\* holds no control character; escapes are not among the texts modelled
ScanString(t, i) ==
    LET close == {j \in (i + 1)..Len(t) : t[j] = DQUOTE}
    IN  IF close = {} THEN Failed
        ELSE LET j == MinOf(close)
                 s == SubSeq(t, i + 1, j - 1)
             IN  IF \E k \in 1..Len(s) : s[k] < 32 \/ s[k] = BACKSLASH THEN Failed
                 ELSE Scanned(PyValue("str", s), j + 1)

\* an integer at position i: an optional minus, then 0 or a run of digits
\* that does not begin with 0; fractions and exponents are not among the
\* texts modelled
ScanNumber(t, i) ==
    LET neg   == t[i] = HYPHEN
        first == IF neg THEN i + 1 ELSE i
        stop  == {j \in first..Len(t) : t[j] \notin Digits}
        end   == IF first <= Len(t) /\ t[first] = 48 THEN first + 1
                 ELSE IF stop = {} THEN Len(t) + 1 ELSE MinOf(stop)
        n     == DigitsValue(SubSeq(t, first, end - 1))
    IN  IF end = first THEN Failed
        ELSE Scanned(PyValue("int", IF neg THEN 0 - n ELSE n), end)

RECURSIVE ScanValue(_, _), ScanElements(_, _, _), ScanMembers(_, _, _)
\* the value that begins at position i
ScanValue(t, i) ==
    IF i > Len(t) THEN Failed
    ELSE IF t[i] = DQUOTE THEN ScanString(t, i)
    ELSE IF t[i] = LBRACKET
    THEN (LET j == SkipSpace(t, i + 1)
          IN  IF j <= Len(t) /\ t[j] = RBRACKET THEN Scanned(PyList(<<>>), j + 1)
              ELSE ScanElements(t, j, <<>>))
    ELSE IF t[i] = LBRACE
    THEN (LET j == SkipSpace(t, i + 1)
          IN  IF j <= Len(t) /\ t[j] = RBRACE THEN Scanned(PyDict(<<>>), j + 1)
              ELSE ScanMembers(t, j, <<>>))
    ELSE IF HasAt(t, i, <<110, 117, 108, 108>>) THEN Scanned([t |-> "None"], i + 4)
    ELSE IF HasAt(t, i, <<116, 114, 117, 101>>) THEN Scanned(PyValue("bool", TRUE), i + 4)
    ELSE IF HasAt(t, i, <<102, 97, 108, 115, 101>>)
    THEN Scanned(PyValue("bool", FALSE), i + 5)
    ELSE IF t[i] \in Digits \cup {HYPHEN} THEN ScanNumber(t, i)
    ELSE Failed

\* the elements of a list from position i on, after those of seen
ScanElements(t, i, seen) ==
    LET e == ScanValue(t, i)
    IN  IF ~e.ok THEN Failed
        ELSE LET j == SkipSpace(t, e.next)
             IN  IF j > Len(t) THEN Failed
                 ELSE IF t[j] = RBRACKET THEN Scanned(PyList(Append(seen, e.val)), j + 1)
                 ELSE IF t[j] = COMMA
                 THEN ScanElements(t, SkipSpace(t, j + 1), Append(seen, e.val))
                 ELSE Failed

\* the members of an object from position i on, after those of seen
ScanMembers(t, i, seen) ==
    IF i > Len(t) \/ t[i] # DQUOTE THEN Failed
    ELSE LET key == ScanString(t, i)
         IN  IF ~key.ok THEN Failed
             ELSE LET c == SkipSpace(t, key.next)
                  IN  IF c > Len(t) \/ t[c] # COLON THEN Failed
                      ELSE LET val == ScanValue(t, SkipSpace(t, c + 1))
                           IN  IF ~val.ok THEN Failed
                               ELSE LET j     == SkipSpace(t, val.next)
                                        items == Append(seen, <<key.val.v, val.val>>)
                                    IN  IF j > Len(t) THEN Failed
                                        ELSE IF t[j] = RBRACE
                                        THEN Scanned(PyDict(items), j + 1)
                                        ELSE IF t[j] = COMMA
                                        THEN ScanMembers(t, SkipSpace(t, j + 1), items)
                                        ELSE Failed

\* json.loads(t): one value with whitespace around it, or JSONDecodeError
json_loads(t) ==
    LET v == ScanValue(t, SkipSpace(t, 1))
    IN  IF v.ok /\ SkipSpace(t, v.next) > Len(t) THEN v ELSE Failed

\* what a call gave: the value returned, or the exception that left it
Returned(val) == [exception |-> "None", value |-> val]
Raised(name) == [exception |-> name]

\* load_index(path), file being what is at path: nothing ("absent"), a file
\* that open() refuses ("unreadable"), bytes that are not UTF-8
\* ("undecodable"), or a text.  Line 302 returns [] for no file; open() at
\* line 304 and the read inside json.load at line 305 are outside what line
\* 306 catches, which is JSONDecodeError alone; whatever value the text
\* decodes to is returned as it is.
load_index(file) ==
    IF file.kind = "absent" THEN Returned(PyList(<<>>))
    ELSE IF file.kind = "unreadable" THEN Raised("OSError")
    ELSE IF file.kind = "undecodable" THEN Raised("UnicodeDecodeError")
    ELSE LET r == json_loads(file.text)
         IN  IF r.ok THEN Returned(r.val) ELSE Returned(PyList(<<>>))

(***************************************************************************)
(* SpecIndex: one call of load_index                                       *)
(***************************************************************************)
MaxFileLen == 4

\* the characters [ ] { } " 1 , : a and the space
FileAlphabet == {LBRACKET, RBRACKET, LBRACE, RBRACE, DQUOTE, 49, COMMA, COLON, 97, SPACE}

\* null, {"a":1}, [{"slug":"a"}], [{"slug":"a"},{"slug":"b"}], [1,{}]
FileSamples ==
    {<<110, 117, 108, 108>>,
     <<123, 34, 97, 34, 58, 49, 125>>,
     <<91, 123, 34, 115, 108, 117, 103, 34, 58, 34, 97, 34, 125, 93>>,
     <<91, 123, 34, 115, 108, 117, 103, 34, 58, 34, 97, 34, 125, 44,
       123, 34, 115, 108, 117, 103, 34, 58, 34, 98, 34, 125, 93>>,
     <<91, 49, 44, 123, 125, 93>>}

Files ==
    {[kind |-> k] : k \in {"absent", "unreadable", "undecodable"}}
    \cup {[kind |-> "text", text |-> t] :
            t \in SeqsUpTo(FileAlphabet, MaxFileLen) \cup FileSamples}

IndexInit ==
    /\ li_file \in Files
    /\ li_out = Raised("None")
    /\ li_pc = "start"
    /\ SlugOff
    /\ PTOff
    /\ KWOff
    /\ SeoOff
    /\ EnhOff
    /\ PipeOff
    /\ RunOff
    /\ PubOff

LoadIndexCall ==
    /\ li_pc = "start"
    /\ li_out' = load_index(li_file)
    /\ li_pc' = "done"
    /\ UNCHANGED <<li_file, liOthers>>

IndexNext == LoadIndexCall

SpecIndex == IndexInit /\ [][IndexNext]_vars

(***************************************************************************)
(* Spec: publish_to_sanity  (publisher.py 91-236), call after call         *)
(***************************************************************************)
MaxRuns == 3
MaxRetries == 3

\* "How Voice AI Handles Support"
TitleHow ==
    <<72, 111, 119, 32, 86, 111, 105, 99, 101, 32, 65, 73, 32, 72, 97, 110,
      100, 108, 101, 115, 32, 83, 117, 112, 112, 111, 114, 116>>
\* "how-voice-ai-handles-support"
SlugHow ==
    <<104, 111, 119, 45, 118, 111, 105, 99, 101, 45, 97, 105, 45, 104, 97,
      110, 100, 108, 101, 115, 45, 115, 117, 112, 112, 111, 114, 116>>
\* "?!": a title with no word character
TitleMarks == <<63, 33>>

\* the titles and slugs the text generator may hand over; <<>> is ""
Titles == {TitleHow, TitleMarks, <<>>}
Slugs == {<<>>, SlugHow \o <<HYPHEN, 51>>}

Contents ==
    [title : Titles, slug : Slugs, category : {"general"}, image_path : BOOLEAN]

Others(r) == Procs \ {r}

\* before the first call: the index file holds the list file, the
\* records of posts whose documents are in the store, or what file_type says
PubBegin(file) ==
    /\ index_file = file
    /\ file_type \in IF file = <<>> THEN {"list", "dict", "corrupt", "undecodable"}
                                    ELSE {"list"}
    /\ calls = [r \in Procs |-> NoCalls]
    /\ succeeded = [r \in Procs |-> {}]
    /\ documents = {file[i].slug : i \in 1..Len(file)}
    /\ runs = 0
    /\ pc = [r \in Procs |-> "idle"]
    /\ generated_content = [r \in Procs |-> NoContent]
    /\ image_asset_id = [r \in Procs |-> "None"]
    /\ index = [r \in Procs |-> <<>>]
    /\ index_type = [r \in Procs |-> "list"]
    /\ desired = [r \in Procs |-> <<>>]
    /\ seo_meta = [r \in Procs |-> NoMeta]
    /\ attempt = [r \in Procs |-> 0]
    /\ result = [r \in Procs |-> "none"]
    /\ SlugOff
    /\ PTOff
    /\ KWOff
    /\ SeoOff
    /\ EnhOff
    /\ PipeOff
    /\ IndexOff
    /\ RunOff

\* no post yet: there is no index file, or one holding [] or {}, or one
\* whose text is not JSON or whose bytes are not UTF-8
PubInit == PubBegin(<<>>)

locals == <<generated_content, image_asset_id, index, index_type, desired, seo_meta,
            attempt>>

\* the call returns (or raises): the process is idle again, its locals gone
Return(r, how) ==
    /\ pc' = [pc EXCEPT ![r] = "idle"]
    /\ result' = [result EXCEPT ![r] = how]
    /\ generated_content' = [generated_content EXCEPT ![r] = NoContent]
    /\ image_asset_id' = [image_asset_id EXCEPT ![r] = "None"]
    /\ index' = [index EXCEPT ![r] = <<>>]
    /\ index_type' = [index_type EXCEPT ![r] = "list"]
    /\ desired' = [desired EXCEPT ![r] = <<>>]
    /\ seo_meta' = [seo_meta EXCEPT ![r] = NoMeta]
    /\ attempt' = [attempt EXCEPT ![r] = 0]

Goto(r, where) ==
    /\ pc' = [pc EXCEPT ![r] = where]
    /\ UNCHANGED result

\* the run of r makes the call what once more
Call(r, what) == calls' = [calls EXCEPT ![r][what] = @ + 1]

\* the call what of the run of r succeeded, or not
Succeed(r, what, ok) ==
    succeeded' = IF ok THEN [succeeded EXCEPT ![r] = @ \cup {what}] ELSE succeeded

\* no other call of publish_to_sanity is in progress
Alone(r) == \A q \in Others(r) : pc[q] = "idle"

\* line 91: process r calls publish_to_sanity, as one of at most limit
\* calls; its log starts empty, the logs and results of the calls that are
\* over are dropped, and how is what it has returned so far
Enter(r, limit, how) ==
    /\ pc[r] = "idle"
    /\ runs < limit
    /\ runs' = runs + 1
    /\ calls' = [q \in Procs |-> IF q = r \/ pc[q] = "idle" THEN NoCalls ELSE calls[q]]
    /\ succeeded' = [q \in Procs |-> IF q = r \/ pc[q] = "idle" THEN {} ELSE succeeded[q]]
    /\ result' = [q \in Procs |-> IF q = r THEN how
                                  ELSE IF pc[q] = "idle" THEN "none" ELSE result[q]]

\* lines 101-103: called without content, False is returned at once
NoContentRun(r, limit) ==
    /\ Enter(r, limit, "False")
    /\ UNCHANGED <<pc, locals, index_file, file_type, documents, pubOthers>>

\* lines 99-105: called with content, one of contents
ContentRun(r, limit, contents) ==
    /\ Enter(r, limit, "none")
    /\ \E c \in contents : generated_content' = [generated_content EXCEPT ![r] = c]
    /\ pc' = [pc EXCEPT ![r] = "author"]
    /\ UNCHANGED <<index_file, file_type, documents, image_asset_id, index,
                   index_type, desired, seo_meta, attempt, pubOthers>>

\* runs do not overlap (spec section 5)
PublishNothing(r) == Alone(r) /\ NoContentRun(r, MaxRuns)

PublishStart(r) == Alone(r) /\ ContentRun(r, MaxRuns, Contents)

\* lines 106-108 without the return: the run goes on whatever the author
\* upsert gave
EnsureAuthor_Unchecked(r) ==
    /\ pc[r] = "author"
    /\ Call(r, "author")
    /\ \E ok \in BOOLEAN : Succeed(r, "author", ok)
    /\ Goto(r, "upload")
    /\ UNCHANGED locals
    /\ UNCHANGED <<index_file, file_type, documents, runs, pubOthers>>

\* lines 106-108, ensure_author_document_exists (21-51): one request
EnsureAuthor(r) ==
    /\ pc[r] = "author"
    /\ Call(r, "author")
    /\ \E ok \in BOOLEAN :
         /\ Succeed(r, "author", ok)
         /\ IF ok THEN Goto(r, "upload") /\ UNCHANGED locals
            ELSE Return(r, "False")
    /\ UNCHANGED <<index_file, file_type, documents, runs, pubOthers>>

\* lines 111-113, upload_image_to_sanity (54-88): one request when there is
\* an image and its file exists (line 58), giving an asset id or None
UploadImage(r) ==
    /\ pc[r] = "upload"
    /\ \E exists \in BOOLEAN :
         IF generated_content[r].image_path /\ exists
         THEN /\ Call(r, "upload")
              /\ \E got \in {"None", "asset"} :
                   /\ image_asset_id' = [image_asset_id EXCEPT ![r] = got]
                   /\ Succeed(r, "upload", got = "asset")
         ELSE UNCHANGED <<calls, succeeded, image_asset_id>>
    /\ Goto(r, "load")
    /\ UNCHANGED <<index_file, file_type, documents, runs, generated_content, index,
                   index_type, desired, seo_meta, attempt, pubOthers>>

\* line 121, load_index (301-306): the value the file holds, whatever its
\* type; the dict {} has nothing to iterate over, as the list []; [] for a
\* file that is not JSON (line 306 catches json.JSONDecodeError); a file
\* that is not UTF-8 makes the read raise UnicodeDecodeError, which line
\* 306 does not catch and which leaves publish_to_sanity
LoadIndex(r) ==
    /\ pc[r] = "load"
    /\ Call(r, "load")
    /\ IF file_type = "undecodable"
       THEN Return(r, "UnicodeDecodeError")
       ELSE /\ index' = [index EXCEPT ![r] = index_file]
            /\ index_type' = [index_type EXCEPT ![r] =
                                  IF file_type = "corrupt" THEN "list" ELSE file_type]
            /\ Goto(r, "enhance")
            /\ UNCHANGED <<generated_content, image_asset_id, desired, seo_meta,
                           attempt>>
    /\ UNCHANGED <<index_file, file_type, succeeded, documents, runs, pubOthers>>

\* lines 124-136, enhance_post; lines 252-253 raise on an empty title
EnhancePost(r) ==
    /\ pc[r] = "enhance"
    /\ IF generated_content[r].title = <<>>
       THEN Return(r, "ValueError")
       ELSE /\ desired' = [desired EXCEPT ![r] = desired_slug_of(generated_content[r])]
            /\ seo_meta' = [seo_meta EXCEPT ![r] =
                               enhance_post(post_of(generated_content[r]), index[r])]
            /\ Goto(r, "save")
            /\ UNCHANGED <<generated_content, image_asset_id, index, index_type, attempt>>
    /\ UNCHANGED <<index_file, file_type, calls, succeeded, documents, runs, pubOthers>>

\* lines 139-140 with the record added to what the file holds by now
SaveIndex_Reloading(r) ==
    /\ pc[r] = "save"
    /\ IF index_type[r] = "list"
       THEN /\ index' = [index EXCEPT ![r] = Append(index[r], seo_meta[r])]
            /\ index_file' = Append(index_file, seo_meta[r])
            /\ file_type' = "list"
            /\ Call(r, "save")
            /\ Goto(r, "create")
            /\ UNCHANGED <<generated_content, image_asset_id, index_type, desired,
                           seo_meta, attempt>>
       ELSE /\ Return(r, "AttributeError")
            /\ UNCHANGED <<index_file, file_type, calls>>
    /\ UNCHANGED <<succeeded, documents, runs, pubOthers>>

\* lines 139-140: index.append(seo_meta); save_index(index), up to its
\* open(path, "w") (seo_enhancer.py 310), which leaves the file empty: a
\* load_index that reads it now gets [] (line 306).  A dict has no append:
\* line 139 raises and line 140 is not reached
SaveIndex(r) ==
    /\ pc[r] = "save"
    /\ IF index_type[r] = "list"
       THEN /\ index' = [index EXCEPT ![r] = Append(index[r], seo_meta[r])]
            /\ index_file' = <<>>
            /\ file_type' = "list"
            /\ Call(r, "save")
            /\ Goto(r, "dump")
            /\ UNCHANGED <<generated_content, image_asset_id, index_type, desired,
                           seo_meta, attempt>>
       ELSE /\ Return(r, "AttributeError")
            /\ UNCHANGED <<index_file, file_type, calls>>
    /\ UNCHANGED <<succeeded, documents, runs, pubOthers>>

\* seo_enhancer.py 311, the json.dump of save_index, whose text is written
\* from the start of the file when the file is closed.  The file holds the
\* list of the call, the loaded records and its own, when it was still
\* empty.  When another call has written since this one opened the file,
\* the text of this call lies over the other: it covers it, or it is the
\* shorter one, in which case the end of the other text stays behind it
\* and the file is not JSON: load_index (line 306) gives [], or, when that
\* end begins inside the bytes of a character (the text is written with
\* ensure_ascii=False, and the en dash of generate_faqs takes three), the
\* file is not UTF-8 and load_index raises.  Which of the three depends on
\* the lengths of the texts; the records here do not fix them (the body of
\* the post and the path of its image are part of the text), so all are
\* outcomes
DumpIndex(r) ==
    /\ pc[r] = "dump"
    /\ \E left \in {"list", "corrupt", "undecodable"} :
         /\ (index_file = <<>> /\ file_type = "list") => left = "list"
         /\ index_file' = IF left = "list" THEN index[r] ELSE <<>>
         /\ file_type' = left
    /\ Goto(r, "create")
    /\ UNCHANGED locals
    /\ UNCHANGED <<calls, succeeded, documents, runs, pubOthers>>

\* lines 198-220: one pass of the create loop.  The request fails (a
\* RequestException: the pass is over), or it is answered, the document
\* being in the store, and lines 204-205 read the answer.  A body that is
\* not JSON raises the JSONDecodeError of requests, a RequestException: the
\* pass is over as after a failed request.  A body without the key results
\* raises KeyError, an empty list of results IndexError, results that are
\* null, or a body that is a list, TypeError (line 204), and a results[0]
\* that is no object, or whose document is null, AttributeError (line 205);
\* line 209 catches none of them
CreateDocument(r) ==
    /\ pc[r] = "create"
    /\ attempt[r] < MaxRetries
    /\ Call(r, "create")
    /\ \E answer \in {"results", "KeyError", "IndexError", "TypeError",
                       "AttributeError", "not JSON", "error"} :
         /\ Succeed(r, "create", answer = "results")
         /\ documents' = IF answer = "error" THEN documents
                          ELSE documents \cup {seo_meta[r].slug}
         /\ IF answer = "results" THEN Goto(r, "webhook") /\ UNCHANGED locals
            ELSE IF answer \notin {"not JSON", "error"} THEN Return(r, answer)
            ELSE IF attempt[r] < MaxRetries - 1
            THEN /\ Goto(r, "create")
                 /\ attempt' = [attempt EXCEPT ![r] = attempt[r] + 1]
                 /\ UNCHANGED <<generated_content, image_asset_id, index, index_type,
                                desired, seo_meta>>
            ELSE Return(r, "False")
    /\ UNCHANGED <<index_file, file_type, runs, pubOthers>>

\* lines 223-236: the deployment webhook, when one is configured: one request
TriggerDeployment(r) ==
    /\ pc[r] = "webhook"
    /\ \E configured \in BOOLEAN, ok \in BOOLEAN :
         /\ IF configured THEN Call(r, "webhook") ELSE UNCHANGED calls
         /\ Succeed(r, "webhook", configured /\ ok)
         /\ Return(r, IF ~configured \/ ok THEN "True" ELSE "False")
    /\ UNCHANGED <<index_file, file_type, documents, runs, pubOthers>>

Next ==
    \E r \in Procs :
        \/ PublishNothing(r)
        \/ PublishStart(r)
        \/ EnsureAuthor(r)
        \/ UploadImage(r)
        \/ LoadIndex(r)
        \/ EnhancePost(r)
        \/ SaveIndex(r)
        \/ DumpIndex(r)
        \/ CreateDocument(r)
        \/ TriggerDeployment(r)

Spec == PubInit /\ [][Next]_vars

(***************************************************************************)
(* SpecRace: calls of publish_to_sanity that may overlap, each step of one *)
(* interleaved with the steps of the other                                 *)
(***************************************************************************)
MaxRaceRuns == 2

\* what the overlapping calls are given: every title and slug, and an
\* image with one of them
RaceContents ==
    {c \in Contents : c.image_path => c.title = TitleHow /\ c.slug = <<>>}

\* the calls begin with no post yet, or after one complete call, with its
\* record in the index file
RaceInit ==
    \E file \in {<<>>,
                  <<enhance_post(post_of([title |-> TitleHow, slug |-> <<>>,
                                           category |-> "general",
                                           image_path |-> FALSE]), <<>>)>>} :
        PubBegin(file)

RaceNext ==
    \E r \in Procs :
        \/ NoContentRun(r, MaxRaceRuns)
        \/ ContentRun(r, MaxRaceRuns, RaceContents)
        \/ EnsureAuthor(r)
        \/ UploadImage(r)
        \/ LoadIndex(r)
        \/ EnhancePost(r)
        \/ SaveIndex(r)
        \/ DumpIndex(r)
        \/ CreateDocument(r)
        \/ TriggerDeployment(r)

SpecRace == RaceInit /\ [][RaceNext]_vars

(***************************************************************************)
(* SpecPipeline: a response of the text generator taken through            *)
(* generate_blog_post (content_generator.py 216-242) and on to the         *)
(* enhance_post call of publish_to_sanity (publisher.py 121-136)           *)
(***************************************************************************)
RECURSIVE ReplaceDoubleHyphen(_)
\* text.replace("--", "-"): the pairs are taken from the left, and what a
\* replacement leaves is not looked at again
ReplaceDoubleHyphen(text) ==
    IF Len(text) < 2 THEN text
    ELSE IF text[1] = HYPHEN /\ text[2] = HYPHEN
    THEN <<HYPHEN>> \o ReplaceDoubleHyphen(SubSeq(text, 3, Len(text)))
    ELSE <<text[1]>> \o ReplaceDoubleHyphen(Tail(text))

\* content_generator.py 222-228: the slug of the response made URL-like
clean_slug(slug) ==
    ReplaceDoubleHyphen(ReplaceChar(Lower(Strip(slug)), SPACE, HYPHEN))

MaxBodyLines == 20

\* "## Intro" and, below it, a table of n rows, each one cell of 20 words:
\* '| ab ab ... ab |'.  The clock is read twice, for the key of the heading
\* and for the key of the table
LongBody(n) ==
    <<35, 35, 32, 73, 110, 116, 114, 111>>
    \o Rep(<<LF, PIPE, SPACE>> \o Rep(<<97, 98, SPACE>>, 20) \o <<PIPE>>, n)

\* the objects the generator answers with: the fields of the response
\* schema (lines 162-185), all of them required
Responses ==
    {[title |-> t, slug |-> s, seo_title |-> t, meta_description |-> <<>>,
      keywords |-> <<>>, excerpt |-> <<>>, reading_time_minutes |-> 5,
      body_markdown |-> b] :
        t \in {TitleHow, <<>>},
        s \in {<<>>, <<SPACE, 72, 111, 119, SPACE, 45, 45, 45, 65, 73, SPACE>>},
        b \in SampleDocs \cup {LongBody(MaxBodyLines)}}

PipeInit ==
    /\ gp_response \in Responses
    /\ generated_data = NoData
    /\ gp_index \in {<<>>, <<[title |-> TitleHow, slug |-> SlugHow, category |-> "general"]>>}
    /\ gp_post = NoMeta
    /\ gp_meta = NoMeta
    /\ gp_pc = "response"
    /\ SlugOff
    /\ PTOff
    /\ KWOff
    /\ SeoOff
    /\ EnhOff
    /\ IndexOff
    /\ RunOff
    /\ PubOff

\* lines 216-233: the response is decoded, its slug cleaned, and
\* markdown_to_portable_text is called on its body
CleanSlug ==
    /\ gp_pc = "response"
    /\ generated_data' = [gp_response EXCEPT !.slug = clean_slug(@)]
    /\ gp_pc' = "convert"
    /\ markdown_text' = gp_response.body_markdown
    /\ pt_pc' = "start"
    /\ UNCHANGED <<gp_response, gp_index, gp_post, gp_meta>>
    /\ UNCHANGED <<lines, line_no, blocks, table_rows, clock>>
    /\ UNCHANGED <<slVars, kwVars, seoVars, enhVars, liVars, runVars, pubVars>>

\* lines 233-242 with the body kept as well, under the key plain_text_body
FinishGeneration_KeepsBody ==
    /\ gp_pc = "convert"
    /\ pt_pc = "done"
    /\ generated_data' =
         [k \in (DOMAIN generated_data \ {"body_markdown"})
                \cup {"portable_text_body", "plain_text_body"} |->
            IF k = "portable_text_body" THEN blocks
            ELSE IF k = "plain_text_body" THEN generated_data.body_markdown
            ELSE generated_data[k]]
    /\ gp_pc' = "generated"
    /\ UNCHANGED <<gp_response, gp_index, gp_post, gp_meta, gpOthers>>

\* lines 233-242: the blocks are stored as portable_text_body, body_markdown
\* is deleted, and the object is returned
FinishGeneration ==
    /\ gp_pc = "convert"
    /\ pt_pc = "done"
    /\ generated_data' =
         [k \in (DOMAIN generated_data \ {"body_markdown"}) \cup {"portable_text_body"} |->
            IF k = "portable_text_body" THEN blocks ELSE generated_data[k]]
    /\ gp_pc' = "generated"
    /\ UNCHANGED <<gp_response, gp_index, gp_post, gp_meta, gpOthers>>

\* publisher.py 121-136: the post is put together and enhance_post called,
\* which raises ValueError for an empty title
PipeEnhance ==
    /\ gp_pc = "generated"
    /\ gp_post' = post_of(generated_data)
    /\ IF generated_data.title = <<>>
       THEN gp_pc' = "ValueError" /\ UNCHANGED gp_meta
       ELSE /\ gp_meta' = enhance_post(post_of(generated_data), gp_index)
            /\ gp_pc' = "enhanced"
    /\ UNCHANGED <<gp_response, generated_data, gp_index, gpOthers>>

PipeNext ==
    \/ CleanSlug
    \/ PTBegin
    \/ PTBlankLine
    \/ PTTableLine
    \/ PTTextLine
    \/ PTEnd
    \/ FinishGeneration
    \/ PipeEnhance

SpecPipeline == PipeInit /\ [][PipeNext]_vars

(***************************************************************************)
(* SpecRun: one call of run_autoblog_workflow  (main.py 10-146), made by    *)
(* autoblog_handler  (gcf_handler.py 9-34)                                 *)
(***************************************************************************)
\* lines 21-46: the number of sub-skills of each of the four niches
NicheSizes == <<5, 4, 4, 4>>

\* the requests a run has issued, by destination: the trending-topic source,
\* the text generator, the image generator, the content store, the webhook
NoRequests ==
    [d \in {"trends", "generation", "image", "store", "webhook"} |-> 0]

\* get_trending_topic(query) (data_scraper.py 16-99), by whether it gave a
\* topic and the queries it sent: none when TrendReq(...) of lines 33-39
\* raises (lines 92-97 give (None, None)); an error on the niche query or a
\* rising or top trend for it (lines 52-63) after one query; otherwise the
\* four seed keywords are queried as well (lines 72-80), with a general
\* trend found or not
TrendOutcomes ==
    {[found |-> FALSE, queries |-> 0]}
    \cup {[found |-> f, queries |-> 1] : f \in BOOLEAN}
    \cup {[found |-> f, queries |-> 5] : f \in BOOLEAN}

\* one call publish_to_sanity(generated_content, image_path) (publisher.py
\* 91-236), by what it gave, the requests it sent, whether the post document
\* was created and whether the webhook succeeded: the author upsert alone
\* when it fails; with the upload when there is an image; an exception from
\* lines 121-139, a TypeError (the index file holds a value that cannot be
\* iterated, the title is not a string) or another; then 1 to 3 document
\* creates, each failed or answered with a body that is not JSON (the
\* document is then in the store), the last answered without a results[0]
\* that lines 204-205 can read (a TypeError or another is raised) or, when
\* one succeeded, followed by the webhook when it is configured
PublishCall(image) ==
    LET before == IF image THEN {1, 2} ELSE {1}
        Outcome(s, n, w, c, d) ==
            [success |-> s, store |-> n, webhook |-> w, created |-> c, deployed |-> d]
    IN  {Outcome("False", 1, 0, FALSE, FALSE)}
        \cup {Outcome(e, b, 0, FALSE, FALSE) : e \in {"raised", "TypeError"}, b \in before}
        \cup {Outcome("False", b + MaxRetries, 0, c, FALSE) : b \in before, c \in BOOLEAN}
        \cup {Outcome(e, b + k, 0, TRUE, FALSE) :
                  e \in {"raised", "TypeError"}, b \in before, k \in 1..MaxRetries}
        \cup {Outcome("True", b + k, 0, TRUE, FALSE) : b \in before, k \in 1..MaxRetries}
        \cup {Outcome("True", b + k, 1, TRUE, TRUE) : b \in before, k \in 1..MaxRetries}
        \cup {Outcome("False", b + k, 1, TRUE, FALSE) : b \in before, k \in 1..MaxRetries}

\* main.py 132-137: publish_to_sanity(generated_content, image_path) and,
\* when it raised TypeError, publish_to_sanity(generated_content), whose
\* TypeError reaches the caller; the requests of both calls are counted,
\* and the document is in the store when either call created it
PublishOutcomes(image) ==
    {o \in PublishCall(image) : o.success # "TypeError"}
    \cup {[success  |-> IF o2.success = "TypeError" THEN "raised" ELSE o2.success,
            store    |-> o1.store + o2.store,
            webhook  |-> o2.webhook,
            created  |-> o1.created \/ o2.created,
            deployed |-> o2.deployed] :
              o1 \in {o \in PublishCall(image) : o.success = "TypeError"},
              o2 \in PublishCall(FALSE)}

\* nothing published
NoPublish == [created |-> FALSE, deployed |-> FALSE]

RunInit ==
    /\ manual_topic \in BOOLEAN
    /\ GEMINI_API_KEY \in BOOLEAN
    /\ selected_niche_name = 0
    /\ specific_sub_topic = 0
    /\ topic = "None"
    /\ requested = NoRequests
    /\ wf_attempt = 0
    /\ wf_image = FALSE
    /\ wf_pc = "topic"
    /\ wf_end = "none"
    /\ wf_published = NoPublish
    /\ status = 0
    /\ SlugOff
    /\ PTOff
    /\ KWOff
    /\ SeoOff
    /\ EnhOff
    /\ PipeOff
    /\ IndexOff
    /\ PubOff

Sent(d, n) == requested' = [requested EXCEPT ![d] = @ + n]

\* lines 69-76: a manual topic is used as it is
ManualTopic ==
    /\ wf_pc = "topic"
    /\ manual_topic
    /\ topic' = "manual"
    /\ wf_pc' = "key"
    /\ UNCHANGED <<manual_topic, GEMINI_API_KEY, selected_niche_name, specific_sub_topic,
                   requested, wf_attempt, wf_image, wf_end, wf_published, status, runOthers>>

\* lines 81-92: a niche is picked and the trending-topic source is asked
\* (get_trending_topic takes a query, so line 87 is always the call made)
TrendingTopic ==
    /\ wf_pc = "topic"
    /\ ~manual_topic
    /\ \E n \in 1..Len(NicheSizes) : selected_niche_name' = n
    /\ \E o \in TrendOutcomes :
         /\ Sent("trends", o.queries)
         /\ topic' = IF o.found THEN "trend" ELSE "None"
         /\ wf_pc' = IF o.found THEN "key" ELSE "fallback"
    /\ UNCHANGED <<manual_topic, GEMINI_API_KEY, specific_sub_topic, wf_attempt,
                   wf_image, wf_end, wf_published, status, runOthers>>

\* lines 95-107: no topic, a sub-skill of the niche is written about
Fallback ==
    /\ wf_pc = "fallback"
    /\ \E s \in 1..NicheSizes[selected_niche_name] : specific_sub_topic' = s
    /\ topic' = "fallback"
    /\ wf_pc' = "key"
    /\ UNCHANGED <<manual_topic, GEMINI_API_KEY, selected_niche_name, requested,
                   wf_attempt, wf_image, wf_end, wf_published, status, runOthers>>

\* lines 110-112: without the key the run returns
CheckKey ==
    /\ wf_pc = "key"
    /\ IF GEMINI_API_KEY
       THEN wf_pc' = "generate" /\ UNCHANGED wf_end
       ELSE wf_pc' = "done" /\ wf_end' = "no key"
    /\ UNCHANGED <<manual_topic, GEMINI_API_KEY, selected_niche_name, specific_sub_topic,
                   topic, requested, wf_attempt, wf_image, wf_published, status, runOthers>>

\* line 114, generate_blog_post (content_generator.py 102-251): one pass of
\* its loop (202-251), lines 116-118 ending the run when the third pass
\* failed too; or, before the first pass, ', '.join(context) of line 145
\* raises TypeError, the context of the payload (used with a manual topic,
\* main.py 69-76) not being a list of strings, and nothing is sent
GenerateBlogPost ==
    /\ wf_pc = "generate"
    /\ wf_attempt < MaxRetries
    /\ \/ /\ manual_topic
          /\ wf_attempt = 0
          /\ wf_pc' = "done"
          /\ wf_end' = "raised"
          /\ UNCHANGED <<requested, wf_attempt>>
       \/ /\ Sent("generation", 1)
          /\ wf_attempt' = wf_attempt + 1
          /\ \E ok \in BOOLEAN :
               IF ok THEN wf_pc' = "image" /\ UNCHANGED wf_end
               ELSE IF wf_attempt < MaxRetries - 1
               THEN wf_pc' = "generate" /\ UNCHANGED wf_end
               ELSE wf_pc' = "done" /\ wf_end' = "no content"
    /\ UNCHANGED <<manual_topic, GEMINI_API_KEY, selected_niche_name, specific_sub_topic,
                   topic, wf_image, wf_published, status, runOthers>>

\* line 122, generate_blog_image (image_gen.py 45-97): the request of
\* enhance_prompt (line 34), whose failure line 41 swallows, then the
\* request for the image (lines 68-75), a file or None; or os.makedirs of
\* line 52, outside the try, raises (the directory cannot be made) and
\* nothing is sent
GenerateBlogImage ==
    /\ wf_pc = "image"
    /\ \/ /\ wf_pc' = "done"
          /\ wf_end' = "raised"
          /\ UNCHANGED <<requested, wf_image>>
       \/ /\ Sent("image", 2)
          /\ wf_image' \in BOOLEAN
          /\ wf_pc' = "publish"
          /\ UNCHANGED wf_end
    /\ UNCHANGED <<manual_topic, GEMINI_API_KEY, selected_niche_name, specific_sub_topic,
                   topic, wf_attempt, wf_published, status, runOthers>>

\* lines 132-146: publish_to_sanity and the report of its result
Publish ==
    /\ wf_pc = "publish"
    /\ \E o \in PublishOutcomes(wf_image) :
         /\ requested' = [requested EXCEPT !["store"] = @ + o.store,
                                           !["webhook"] = @ + o.webhook]
         /\ wf_end' = (IF o.success = "True" THEN "complete"
                       ELSE IF o.success = "False" THEN "failed" ELSE "raised")
         /\ wf_published' = [created |-> o.created, deployed |-> o.deployed]
    /\ wf_pc' = "done"
    /\ UNCHANGED <<manual_topic, GEMINI_API_KEY, selected_niche_name, specific_sub_topic,
                   topic, wf_attempt, wf_image, status, runOthers>>

\* lines 51-60: one of the imports of run_autoblog_workflow fails (src/ is
\* not on sys.path, so that publisher.py cannot import seo_enhancer):
\* CRITICAL is printed and the call returns, nothing having been sent
ImportFailure ==
    /\ wf_pc = "topic"
    /\ wf_pc' = "done"
    /\ wf_end' = "import error"
    /\ UNCHANGED <<manual_topic, GEMINI_API_KEY, selected_niche_name, specific_sub_topic,
                   topic, requested, wf_attempt, wf_image, wf_published, status,
                   runOthers>>

\* gcf_handler.py 19-23: the payload of the request could not be read as an
\* object (get_json or data.get raises) and the workflow is not run
PayloadError ==
    /\ wf_pc = "topic"
    /\ wf_pc' = "done"
    /\ wf_end' = "raised"
    /\ UNCHANGED <<manual_topic, GEMINI_API_KEY, selected_niche_name, specific_sub_topic,
                   topic, requested, wf_attempt, wf_image, wf_published, status,
                   runOthers>>

\* gcf_handler.py 26-34, autoblog_handler: 200 when run_autoblog_workflow
\* returned, whatever it printed; 500 when an exception reached the handler
Respond ==
    /\ wf_pc = "done"
    /\ wf_pc' = "responded"
    /\ status' = IF wf_end = "raised" THEN 500 ELSE 200
    /\ UNCHANGED <<manual_topic, GEMINI_API_KEY, selected_niche_name, specific_sub_topic,
                   topic, requested, wf_attempt, wf_image, wf_end, wf_published,
                   runOthers>>

RunNext ==
    \/ ManualTopic
    \/ TrendingTopic
    \/ Fallback
    \/ CheckKey
    \/ GenerateBlogPost
    \/ GenerateBlogImage
    \/ Publish
    \/ ImportFailure
    \/ PayloadError
    \/ Respond

SpecRun == RunInit /\ [][RunNext]_vars

(***************************************************************************)
(* choose_internal_links  (seo_enhancer.py 166-176)                        *)
(***************************************************************************)
\* line 176: the length an excerpt is cut to
LinkExcerptLen == 140

\* p.get(key, default)
Get(p, key, default) == IF key \in DOMAIN p THEN p[key] ELSE default

\* line 167: the category of the first record with the current slug, None
\* when there is none
current_cat_of(records, current_slug) ==
    LET at == {i \in 1..Len(records) : Get(records[i], "slug", "None") = current_slug}
    IN  IF at = {} THEN "None" ELSE Get(records[MinOf(at)], "category", "None")

\* random.sample(population, k): the elements at k distinct positions, in
\* any order
Sample(population, k) ==
    {[i \in 1..k |-> population[f[i]]] :
        f \in {g \in [1..k -> 1..Len(population)] :
                 \A i, j \in 1..k : i # j => g[i] # g[j]}}

\* lines 167-175: every list picks can be when line 176 is reached
picks_of(records, current_slug, max_links) ==
    LET current_cat == current_cat_of(records, current_slug)
        NotSelf(p)  == Get(p, "slug", "None") # current_slug
        same_cat    == SelectSeq(records, LAMBDA p :
                           Get(p, "category", "None") = current_cat /\ NotSelf(p))
        first       == IF same_cat # <<>>
                       THEN Sample(same_cat, MinOf({Len(same_cat), max_links}))
                       ELSE {<<>>}
        others(picks) == SelectSeq(records, LAMBDA p :
                             NotSelf(p) /\ p \notin Range(picks))
        second(picks) == IF Len(picks) < max_links /\ others(picks) # <<>>
                         THEN Sample(others(picks),
                                     MinOf({max_links - Len(picks), Len(others(picks))}))
                         ELSE {<<>>}
    IN  UNION {{p1 \o p2 : p2 \in second(p1)} : p1 \in first}

\* line 176 as a bug would have it: the excerpt not cut
choose_internal_links_Uncut(picks) ==
    [i \in 1..Len(picks) |->
        [title   |-> Get(picks[i], "title", <<>>),
         slug    |-> Get(picks[i], "slug", <<>>),
         excerpt |-> Get(picks[i], "excerpt", <<>>),
         image   |-> Get(picks[i], "image", "None")]]

\* line 176: the summaries returned for the records picked
choose_internal_links(picks) ==
    [i \in 1..Len(picks) |->
        [title   |-> Get(picks[i], "title", <<>>),
         slug    |-> Get(picks[i], "slug", <<>>),
         excerpt |-> Prefix(Get(picks[i], "excerpt", <<>>), LinkExcerptLen),
         image   |-> Get(picks[i], "image", "None")]]

(***************************************************************************)
(* SpecEnhance: one call of choose_internal_links, or one of enhance_post  *)
(***************************************************************************)
MaxIndexLen == 4
MaxLinks == 3

CatVoice == "voice-automation-ai"
CatGeneral == "general"

\* a record of the index with a one-letter title and slug
IndexRecord(letter, category, excerptLen) ==
    [title    |-> <<letter - 32>>,
     slug     |-> <<letter>>,
     category |-> category,
     excerpt  |-> Rep(<<101>>, excerptLen),
     image    |-> "None"]

\* three records of one category (one with an excerpt longer than the cut),
\* one of another, and one that shares its slug with the first
RecordPool ==
    {IndexRecord(97, CatVoice, LinkExcerptLen + 1), IndexRecord(98, CatVoice, 2),
     IndexRecord(99, CatVoice, 0), IndexRecord(100, CatGeneral, 3),
     IndexRecord(97, CatGeneral, 1)}

\* the indexes: pairwise distinct records of the pool, in every order
Indexes ==
    {ix \in SeqsUpTo(RecordPool, MaxIndexLen) :
        \A i, j \in 1..Len(ix) : i # j => ix[i] # ix[j]}

\* "a", "b", and "zz", the slug of no record
CurrentSlugs == {<<97>>, <<98>>, <<122, 122>>}

NoPost == [title |-> <<>>, slug |-> <<>>, content |-> <<>>, category |-> CatGeneral]

\* "How Voice AI Handles Support" without a slug and with a body of 300
\* words: "ab " 300 times, "voice support team " 100 times
LongPosts ==
    {[title |-> TitleHow, slug |-> <<>>, content |-> Rep(<<97, 98, SPACE>>, 300),
      category |-> CatVoice],
     [title |-> TitleHow, slug |-> <<>>,
      content |-> Rep(<<118, 111, 105, 99, 101, SPACE, 115, 117, 112, 112, 111,
                        114, 116, SPACE, 116, 101, 97, 109, SPACE>>, 100),
      category |-> CatVoice]}

\* the same title with a body of two words, and a post that asks for the
\* slug of a record of the pool
ShortPosts ==
    {[title |-> TitleHow, slug |-> <<>>, content |-> <<97, 98, SPACE, 97, 98>>,
      category |-> CatVoice],
     [title |-> <<65, 98>>, slug |-> <<97>>, content |-> <<>>, category |-> CatGeneral]}

\* the calls of enhance_post: the long posts against the indexes of at most
\* one record, the short ones against every index
EnhanceCases ==
    {[post |-> p, index |-> ix] : p \in LongPosts, ix \in {jx \in Indexes : Len(jx) <= 1}}
    \cup {[post |-> p, index |-> ix] : p \in ShortPosts, ix \in Indexes}

EnhInit ==
    /\ \/ /\ enh_pc = "choose"
          /\ enh_index \in Indexes
          /\ enh_slug \in CurrentSlugs
          /\ enh_max \in 0..MaxLinks
          /\ enh_post = NoPost
       \/ /\ enh_pc = "enhance"
          /\ \E c \in EnhanceCases :
               /\ enh_index = c.index
               /\ enh_post = c.post
          /\ enh_slug = <<>>
          /\ enh_max = DefaultMaxLinks
    /\ enh_meta = NoMeta
    /\ enh_picks = <<>>
    /\ enh_related = <<>>
    /\ SlugOff
    /\ PTOff
    /\ KWOff
    /\ SeoOff
    /\ PipeOff
    /\ IndexOff
    /\ RunOff
    /\ PubOff

\* a call choose_internal_links(index, current_slug, max_links)
ChooseInternalLinks ==
    /\ enh_pc = "choose"
    /\ \E picks \in picks_of(enh_index, enh_slug, enh_max) :
         /\ enh_picks' = picks
         /\ enh_related' = choose_internal_links(picks)
    /\ enh_pc' = "chosen"
    /\ UNCHANGED <<enh_index, enh_post, enh_slug, enh_max, enh_meta, enhOthers>>

\* a call enhance_post(post, index); line 276 asks for the links of the
\* slug just assigned
EnhanceCall ==
    /\ enh_pc = "enhance"
    /\ LET meta == enhance_post(enh_post, enh_index)
       IN  /\ enh_meta' = meta
           /\ enh_slug' = meta.slug
           /\ \E picks \in picks_of(enh_index, meta.slug, DefaultMaxLinks) :
                /\ enh_picks' = picks
                /\ enh_related' = choose_internal_links(picks)
    /\ enh_pc' = "enhanced"
    /\ UNCHANGED <<enh_index, enh_post, enh_max, enhOthers>>

EnhNext == ChooseInternalLinks \/ EnhanceCall

SpecEnhance == EnhInit /\ [][EnhNext]_vars

(***************************************************************************)
(* Claims about the slugs of the index                                     *)
(***************************************************************************)
SlugsOf(records) == {records[i].slug : i \in 1..Len(records)}

PairwiseDistinctSlugs(records) ==
    \A i, j \in 1..Len(records) : i # j => records[i].slug # records[j].slug

\* process r has just come out of enhance_post
Enhanced(r) == pc[r] = "save"

\* C1 (as claimed): the slug enhance_post assigns to a post with a non-empty
\* title differs from the slug of every record of the index it was given;
\* so after any sequence of publish runs, one after the other from an empty
\* index, the slugs of the records of the persisted index are pairwise
\* distinct.
C1_SlugsUnique ==
    /\ \A r \in Procs : Enhanced(r) => seo_meta[r].slug \notin SlugsOf(index[r])
    /\ PairwiseDistinctSlugs(index_file)

\* d-k for the smallest k >= 2 such that no record has the slug d-k
RECURSIVE SmallestFree(_, _, _)
SmallestFree(taken, d, k) ==
    IF Numbered(d, k) \in taken THEN SmallestFree(taken, d, k + 1) ELSE Numbered(d, k)

\* C2 (as claimed): ensure_unique_slug(index, d) is d when no record of the
\* index has the slug d, and otherwise d-k for the smallest k >= 2 such that
\* d-k is the slug of no record; the title "How Voice AI Handles Support"
\* against an index holding "how-voice-ai-handles-support" gets
\* "how-voice-ai-handles-support-2".
C2_SmallestSuffix ==
    \A r \in Procs :
        Enhanced(r) =>
            /\ seo_meta[r].slug =
                   IF desired[r] \notin SlugsOf(index[r]) THEN desired[r]
                   ELSE SmallestFree(SlugsOf(index[r]), desired[r], 2)
            /\ (generated_content[r].title = TitleHow /\ generated_content[r].slug = <<>>
                  /\ SlugsOf(index[r]) = {SlugHow})
               => seo_meta[r].slug = SlugHow \o <<HYPHEN, 50>>

\* What does hold: both statements whenever the slug asked for is not empty.
Slug_HoldsForNonEmpty ==
    \A r \in Procs :
        (Enhanced(r) /\ desired[r] # <<>>) =>
            /\ seo_meta[r].slug \notin SlugsOf(index[r])
            /\ seo_meta[r].slug =
                   IF desired[r] \notin SlugsOf(index[r]) THEN desired[r]
                   ELSE SmallestFree(SlugsOf(index[r]), desired[r], 2)

(***************************************************************************)
(* Claims about markdown_to_portable_text                                  *)
(***************************************************************************)
IsBlankLine(l) == \A i \in 1..Len(l) : IsSpace(l[i])
IsPipeLine(l) == PIPE \in Range(l)
IsTextLine(l) == ~IsBlankLine(l) /\ ~IsPipeLine(l)
IsNonBlankLine(l) == ~IsBlankLine(l)
IsTable(b) == b.type = "table"
IsText(b) == b.type = "block"

\* the block types a sequence of non-blank lines must give: a "block" per
\* text line, one "table" per maximal run of pipe lines
RECURSIVE ExpectedTypes(_, _)
ExpectedTypes(ls, afterPipe) ==
    IF ls = <<>> THEN <<>>
    ELSE IF IsPipeLine(Head(ls))
         THEN (IF afterPipe THEN <<>> ELSE <<"table">>) \o ExpectedTypes(Tail(ls), TRUE)
         ELSE <<"block">> \o ExpectedTypes(Tail(ls), FALSE)

\* the rows of all tables, one after the other
RECURSIVE AllRows(_)
AllRows(bs) ==
    IF bs = <<>> THEN <<>>
    ELSE (IF IsTable(Head(bs)) THEN Head(bs).rows ELSE <<>>) \o AllRows(Tail(bs))

\* the length of every maximal run of pipe lines, in order
RECURSIVE RunLengths(_, _)
RunLengths(ls, run) ==
    IF ls = <<>> THEN (IF run > 0 THEN <<run>> ELSE <<>>)
    ELSE IF IsPipeLine(Head(ls)) THEN RunLengths(Tail(ls), run + 1)
    ELSE (IF run > 0 THEN <<run>> ELSE <<>>) \o RunLengths(Tail(ls), 0)

\* C5: the blocks come in source line order with nothing lost: one text
\* block per non-blank line without a pipe, one table block per maximal run
\* of pipe lines (blank lines between them ignored) holding one row per line
\* in order, a pending table flushed before the next text line, and the rows
\* pending at the end of the input emitted as a last table block.
C5_BlocksInLineOrder ==
    pt_pc = "done" =>
        LET nonBlank  == SelectSeq(lines, IsNonBlankLine)
            pipeLines == SelectSeq(lines, IsPipeLine)
            textLines == SelectSeq(lines, IsTextLine)
            tables    == SelectSeq(blocks, IsTable)
            texts     == SelectSeq(blocks, IsText)
        IN  /\ [i \in 1..Len(blocks) |-> blocks[i].type] = ExpectedTypes(nonBlank, FALSE)
            /\ [i \in 1..Len(tables) |-> Len(tables[i].rows)] = RunLengths(nonBlank, 0)
            /\ AllRows(blocks) = [i \in 1..Len(pipeLines) |-> row_cells(Strip(pipeLines[i]))]
            /\ [i \in 1..Len(texts) |-> texts[i].text] =
                   [i \in 1..Len(textLines) |-> heading_of(clean_text(Strip(textLines[i]))).text]
            /\ table_rows = <<>>

\* C5 witness: a finished conversion whose last block is a table of two rows
\* that had blank lines between them, after a text block and another table.
C5_Witness ==
    /\ pt_pc = "done"
    /\ Len(blocks) = 3
    /\ IsTable(blocks[1]) /\ IsText(blocks[2]) /\ IsTable(blocks[3])
    /\ Len(blocks[3].rows) = 2
    /\ \E i \in 2..(Len(lines) - 1) :
          /\ IsPipeLine(lines[i - 1]) /\ IsBlankLine(lines[i])
          /\ \E j \in (i + 1)..Len(lines) :
                IsPipeLine(lines[j]) /\ \A k \in i..(j - 1) : IsBlankLine(lines[k])

\* the line the loop has just processed
LastLine == Strip(lines[line_no - 1])
JustProcessed == pt_pc = "loop" /\ line_no > 1

\* the row as C6 describes it: at most one pipe off each end
StripOnePipeEachEnd(l) ==
    LET a == IF l # <<>> /\ Head(l) = PIPE THEN Tail(l) ELSE l
    IN  IF a # <<>> /\ a[Len(a)] = PIPE THEN SubSeq(a, 1, Len(a) - 1) ELSE a

ClaimedRow(l) ==
    LET parts == Split(StripOnePipeEachEnd(l), PIPE)
    IN  [i \in 1..Len(parts) |-> Strip(parts[i])]

\* C6 (as claimed): the row of a line holding a pipe is obtained by removing
\* at most one leading and at most one trailing pipe from the stripped line,
\* splitting the rest on every pipe and trimming each cell, so that further
\* leading or trailing pipes give empty cells.
C6_AsClaimed ==
    (JustProcessed /\ IsPipeLine(LastLine)) =>
        /\ table_rows # <<>>
        /\ table_rows[Len(table_rows)] = ClaimedRow(LastLine)

NumPrefix(n) ==
    \E k \in 1..Len(n) :
        /\ \A i \in 1..k : n[i] \in Digits
        /\ Len(n) >= k + 2
        /\ n[k + 1] = DOT
        /\ IsSpace(n[k + 2])
H2Prefix(n) == Len(n) >= 3 /\ n[1] = HASH /\ n[2] = HASH /\ n[3] = SPACE
H1Prefix(n) == Len(n) >= 2 /\ n[1] = HASH /\ n[2] = SPACE
DropFirst(n, k) == SubSeq(n, k + 1, Len(n))

\* C7: for a line without a pipe, after normalisation (em dash to hyphen,
\* ** and * removed, whitespace collapsed) the style is picked by the first
\* matching rule: digits-dot-whitespace gives h2 with the number kept in the
\* text; "## " gives h2 with the prefix removed; "# " gives h1 with the
\* prefix removed; otherwise normal with the text unchanged.
C7_HeadingRules ==
    (JustProcessed /\ IsTextLine(LastLine)) =>
        LET n == clean_text(LastLine)
            b == blocks[Len(blocks)]
        IN  /\ STAR \notin Range(n) /\ EM_DASH \notin Range(n)
            /\ \A i \in 1..Len(n) : IsSpace(n[i]) =>
                   n[i] = SPACE /\ 1 < i /\ i < Len(n) /\ ~IsSpace(n[i + 1])
            /\ IsText(b)
            /\ IF NumPrefix(n) THEN b.style = "h2" /\ b.text = n
               ELSE IF H2Prefix(n) THEN b.style = "h2" /\ b.text = DropFirst(n, 3)
               ELSE IF H1Prefix(n) THEN b.style = "h1" /\ b.text = DropFirst(n, 2)
               ELSE b.style = "normal" /\ b.text = n

\* C7 witness: a numbered heading whose line the normalisation changed; its
\* block is h2 and its text still starts with the number.
C7_Witness ==
    /\ JustProcessed
    /\ IsTextLine(LastLine)
    /\ blocks[Len(blocks)].style = "h2"
    /\ blocks[Len(blocks)].text # LastLine
    /\ Head(blocks[Len(blocks)].text) \in Digits

\* C8 (as claimed): within one call the keys of the text blocks are pairwise
\* distinct, also when two lines normalise to the same text and style and
\* are processed at the same clock reading.
C8_TextKeysDistinct ==
    \A i, j \in 1..Len(blocks) :
        (i # j /\ IsText(blocks[i]) /\ IsText(blocks[j])) => blocks[i].key # blocks[j].key

(***************************************************************************)
(* Claims about slugify                                                    *)
(***************************************************************************)
\* C3: slugify is idempotent: slugify(slugify(s)) = slugify(s) for every s.
C3_SlugifyIdempotent == sl_pc = "twice" => sl_twice = sl_once

\* C3 witness: a second application to a slug that the first one changed
\* and that holds a hyphen.
C3_Witness ==
    /\ sl_pc = "twice"
    /\ sl_once # sl_text
    /\ HYPHEN \in Range(sl_once)
    /\ \E i \in 1..Len(sl_once) : IsWord(sl_once[i])

\* the word characters of q, and where they stand
WordChars(q) == SelectSeq(q, IsWord)

RECURSIVE WordPositions(_, _)
WordPositions(q, from) ==
    IF from > Len(q) THEN <<>>
    ELSE (IF IsWord(q[from]) THEN <<from>> ELSE <<>>) \o WordPositions(q, from + 1)

IsSolid(c) == IsWord(c) \/ c = HYPHEN
SolidAt(q) == {i \in 1..Len(q) : IsSolid(q[i])}

NoUpper(q) == \A i \in 1..Len(q) : q[i] \notin UpperAscii
NoEdgeHyphen(q) == q = <<>> \/ (q[1] # HYPHEN /\ q[Len(q)] # HYPHEN)

\* The slug as C4 describes it: lowercase, every run of non-word characters
\* one hyphen, no hyphen at either end.
RECURSIVE ReplaceNonWordRuns(_, _)
ReplaceNonWordRuns(text, inRun) ==
    IF text = <<>> THEN <<>>
    ELSE IF ~IsWord(Head(text))
         THEN (IF inRun THEN <<>> ELSE <<HYPHEN>>) \o ReplaceNonWordRuns(Tail(text), TRUE)
         ELSE <<Head(text)>> \o ReplaceNonWordRuns(Tail(text), FALSE)

RECURSIVE TrimHyphens(_)
TrimHyphens(q) ==
    IF q # <<>> /\ q[1] = HYPHEN THEN TrimHyphens(Tail(q))
    ELSE IF q # <<>> /\ q[Len(q)] = HYPHEN THEN TrimHyphens(SubSeq(q, 1, Len(q) - 1))
    ELSE q

\* C4 (as claimed): slugify(s) is lowercase, has every run of non-word
\* characters of s replaced by exactly one hyphen, and neither begins nor
\* ends with a hyphen.
C4_AsClaimed ==
    sl_pc # "start" =>
        /\ NoUpper(sl_once)
        /\ NoEdgeHyphen(sl_once)
        /\ sl_once = TrimHyphens(ReplaceNonWordRuns(Lower(NFKD(sl_text)), FALSE))

\* C4 (amended): with k the NFKD form of s (line 30), slugify(s) is
\* lowercase and made of word characters and single hyphens only; its word
\* characters are the lowercased word characters of k, in order (any other
\* character of k that is neither whitespace nor a hyphen is deleted, not
\* replaced); two neighbouring word characters are separated by one hyphen
\* exactly when whitespace or a hyphen stands between them in k; and the
\* slug begins (ends) with a hyphen exactly when the first (last) character
\* of k that is a word character or a hyphen is a hyphen.  A character of s
\* that is not a word character may leave word characters or whitespace in
\* k: the trade mark sign gives "tm", the acute accent a hyphen.
C4_SlugifyShape ==
    sl_pc # "start" =>
        LET k    == NFKD(sl_text)
            out  == sl_once
            wk   == WordPositions(k, 1)
            wo   == WordPositions(out, 1)
            sol  == SolidAt(k)
        IN  /\ NoUpper(out)
            /\ \A i \in 1..Len(out) : IsSolid(out[i])
            /\ \A i \in 1..(Len(out) - 1) : ~(out[i] = HYPHEN /\ out[i + 1] = HYPHEN)
            /\ WordChars(out) = Lower(WordChars(k))
            /\ \A n \in 1..(Len(wo) - 1) :
                   wo[n + 1] - wo[n] =
                       IF \E j \in (wk[n] + 1)..(wk[n + 1] - 1) : IsHyphenOrSpace(k[j])
                       THEN 2 ELSE 1
            /\ (out # <<>> /\ out[1] = HYPHEN) <=> (sol # {} /\ k[MinOf(sol)] = HYPHEN)
            /\ (out # <<>> /\ out[Len(out)] = HYPHEN) <=> (sol # {} /\ k[MaxOf(sol)] = HYPHEN)

\* C4 witness: a slug that ends with a hyphen, lost a punctuation mark
\* without getting a hyphen for it, and holds the "tm" of a trade mark sign.
C4_Witness ==
    LET k == NFKD(sl_text)
    IN  /\ sl_pc = "once"
        /\ sl_once # <<>>
        /\ sl_once[Len(sl_once)] = HYPHEN
        /\ 8482 \in Range(sl_text)
        /\ \E i \in 1..(Len(sl_once) - 1) : SubSeq(sl_once, i, i + 1) = <<116, 109>>
        /\ \E i \in 2..(Len(k) - 1) :
               k[i] = 33 /\ IsWord(k[i - 1]) /\ IsWord(k[i + 1])

(***************************************************************************)
(* Claims about the metadata functions                                     *)
(***************************************************************************)
\* the number of word tokens of text: the positions where a maximal run of
\* word characters begins
WordCount(text) ==
    Cardinality({i \in 1..Len(text) :
                    IsWord(text[i]) /\ (i = 1 \/ ~IsWord(text[i - 1]))})

\* C11: for every text, estimate_reading_time returns max(1, floor(w / 200))
\* where w is the number of word tokens of the text; it is never 0, and it
\* is 1 for the empty string.
C11_ReadingTime ==
    seo_fn = "estimate_reading_time" =>
        LET w == WordCount(seo_content)
        IN  /\ seo_minutes = (IF w \div 200 > 1 THEN w \div 200 ELSE 1)
            /\ seo_minutes # 0
            /\ (seo_content = <<>> => seo_minutes = 1)

\* a text of 400 words or more has been measured, at 2 minutes
C11_Witness ==
    /\ seo_fn = "estimate_reading_time"
    /\ WordCount(seo_content) >= 400
    /\ seo_minutes = 2

\* C13 (as claimed): for every title, body and keyword list,
\* generate_meta_description returns a string of at most 170 characters,
\* whatever the length of the body and of the primary keyword that may be
\* prefixed to the summary.
C13_DescriptionAtMost170 ==
    seo_fn = "generate_meta_description" => Len(seo_text) <= 170

\* C14 (as claimed): for every title and keyword list, generate_meta_title
\* returns a string of at most 60 characters: when "{primary keyword} |
\* {org name}" exceeds 60 characters, the title portion is truncated so that
\* the result including the org suffix fits in 60 characters.
C14_TitleAtMost60 ==
    seo_fn = "generate_meta_title" => Len(seo_text) <= MetaTitleMaxLen

(***************************************************************************)
(* Claims about enhance_post and choose_internal_links                     *)
(***************************************************************************)
\* the scenario of C12: enhance_post has returned for the post with title
\* "How Voice AI Handles Support", no slug, a 300-word body, category
\* "voice-automation-ai" and no images, against an empty index
Scenario12 ==
    /\ enh_pc = "enhanced"
    /\ enh_post.title = TitleHow
    /\ enh_post.slug = <<>>
    /\ WordCount(enh_post.content) = 300
    /\ enh_post.category = CatVoice
    /\ enh_index = <<>>

\* what C12 says of the metadata apart from the reading time
Scenario12Rest ==
    /\ enh_meta.slug = SlugHow
    /\ Len(enh_meta.faqs) = 3
    /\ Len(enh_meta.keywords) \in 1..6
    /\ build_article_jsonld(enh_meta).type = "Article"
    /\ build_article_jsonld(enh_meta).headline = TitleHow

\* C12 (as claimed): enriching the post with title "How Voice AI Handles
\* Support", no slug, a 300-word body, category "voice-automation-ai" and no
\* images against an empty index yields metadata with slug
\* "how-voice-ai-handles-support", reading_time 2, exactly 3 FAQs, between 1
\* and 6 keywords, and an Article structured-data object whose headline
\* equals the title.
C12_AsClaimed ==
    Scenario12 => (Scenario12Rest /\ enh_meta.reading_time = 2)

\* C12 (amended): the same, with reading_time 1: 300 words at 200 words per
\* minute, rounded down.
C12_Scenario ==
    Scenario12 => (Scenario12Rest /\ enh_meta.reading_time = 1)

C12_Witness == Scenario12 /\ enh_meta.slug = SlugHow /\ Len(enh_meta.keywords) = 6

\* the number of records of the index whose slug is not the current slug
OtherRecords == Cardinality({i \in 1..Len(enh_index) : enh_index[i].slug # enh_slug})

\* C15: for every index of pairwise distinct records, every current slug and
\* every M, choose_internal_links returns exactly min(M, number of index
\* records whose slug differs from the current slug) summaries, none of them
\* with the current slug, never the same index record twice, and each with
\* its excerpt cut to at most 140 characters.
C15_LinksChosen ==
    enh_pc \in {"chosen", "enhanced"} =>
        /\ Len(enh_related) = (IF enh_max < OtherRecords THEN enh_max ELSE OtherRecords)
        /\ Len(enh_picks) = Len(enh_related)
        /\ \A i \in 1..Len(enh_related) :
             /\ enh_picks[i] \in Range(enh_index)
             /\ enh_related[i].slug = enh_picks[i].slug
             /\ enh_related[i].slug # enh_slug
             /\ Len(enh_related[i].excerpt) <= 140
             /\ enh_related[i].excerpt = SubSeq(enh_picks[i].excerpt, 1, Len(enh_related[i].excerpt))
        /\ \A i, j \in 1..Len(enh_picks) : i # j => enh_picks[i] # enh_picks[j]

\* three links were chosen out of more, one of them with its excerpt cut
C15_Witness ==
    /\ enh_pc = "chosen"
    /\ Len(enh_related) = 3
    /\ OtherRecords > 3
    /\ \E i \in 1..3 : /\ Len(enh_picks[i].excerpt) > 140
                       /\ Len(enh_related[i].excerpt) = 140

\* C16 (as claimed): related posts chosen during enhance_post prefer the
\* post's own category: when the index holds at least 3 records whose
\* category equals the category of the post being enriched, all 3 related
\* posts returned have that category.
C16_OwnCategoryFirst ==
    (/\ enh_pc = "enhanced"
     /\ Cardinality({i \in 1..Len(enh_index) :
                        enh_index[i].category = enh_post.category}) >= 3)
    => /\ Len(enh_picks) = 3
       /\ \A i \in 1..3 : enh_picks[i].category = enh_post.category

\* a list whose every element is a record (a dict)
IsRecordList(val) ==
    /\ val.t = "list"
    /\ \A i \in 1..Len(val.v) : val.v[i].t = "dict"

\* the file holds a well-formed index: text that is JSON for a list of
\* records
HoldsIndex(file) ==
    /\ file.kind = "text"
    /\ json_loads(file.text).ok
    /\ IsRecordList(json_loads(file.text).val)

\* C17 (as claimed): load_index always returns a sequence of records and
\* never raises: the empty sequence when the file is absent, cannot be read,
\* or holds something that is not a well-formed index (invalid JSON, or
\* valid JSON that is not a list of records); the stored sequence otherwise.
C17_LoadNeverRaises ==
    li_pc = "done"
    => /\ li_out.exception = "None"
       /\ IsRecordList(li_out.value)
       /\ IF HoldsIndex(li_file)
          THEN li_out.value = json_loads(li_file.text).val
          ELSE Len(li_out.value.v) = 0

\* the list without its last element
Front(q) == SubSeq(q, 1, Len(q) - 1)

\* the latest run of r is over
Finished(r) == pc[r] = "idle" /\ result[r] # "none"

\* C18 (as claimed): within one run the index file is read exactly once and
\* written at most once; when enrichment succeeds (the run has its seo_meta
\* and is about to update the index) the index persisted by the run is the
\* sequence it loaded with the new record appended, and stays so until the
\* run ends; a run that stops before enrichment does not write the file.
C18_IndexReadOnceWrittenOnce ==
    /\ [](\A r \in Procs :
            /\ calls[r]["load"] <= 1
            /\ calls[r]["save"] <= 1
            /\ Finished(r) => calls[r]["load"] = 1
            /\ (Finished(r) /\ calls[r]["load"] = 0) => calls[r]["save"] = 0)
    /\ [][\A r \in Procs :
            /\ (pc[r] \in {"save", "dump"} /\ pc'[r] \notin {"save", "dump"})
               => /\ file_type' = "list"
                  /\ index_file' = Append(IF pc[r] = "save" THEN index[r]
                                           ELSE Front(index[r]), seo_meta[r])
                  /\ calls'[r]["save"] = 1
            /\ pc[r] \in {"create", "webhook"} => index_file' = index_file]_vars

\* the calls of publish_to_sanity that go out to the network
Outbound == {"author", "upload", "create", "webhook"}

\* C19 (as claimed): every outbound call of a run is attempted again after a
\* failure until it succeeds or 3 attempts have been made, and never more
\* than 3 times; the run fails only after the third failed attempt.  Here
\* for the calls of publish_to_sanity: a step that ends the run with False
\* at the author upsert, the document create or the webhook is the third
\* attempt of that call, and an image upload that gave no asset is left
\* only after its third attempt.
C19_ThreeAttempts ==
    /\ [](\A r \in Procs : \A c \in Outbound : calls[r][c] <= MaxRetries)
    /\ [][\A r \in Procs :
            /\ (/\ pc[r] \in {"author", "create", "webhook"}
                /\ pc'[r] = "idle"
                /\ result'[r] = "False")
               => calls'[r][pc[r]] = MaxRetries
            /\ (/\ pc[r] = "upload"
                /\ calls'[r]["upload"] > calls[r]["upload"]
                /\ pc'[r] # "upload"
                /\ image_asset_id'[r] = "None")
               => calls'[r]["upload"] = MaxRetries]_vars

\* C20 (as claimed): when the generation API key is absent the run aborts
\* before any network call is made: in a run with a missing key neither the
\* trending-topic source nor any generation, store or webhook request is
\* issued.
C20_NoKeyNoRequest ==
    (wf_pc # "off" /\ ~GEMINI_API_KEY) => requested = NoRequests

\* C21 (as claimed): whenever a run fails (generation exhausted its retries,
\* the author upsert, the document create or the webhook failed) the entry
\* point reports failure: autoblog_handler answers 200 only for runs in
\* which the post document was created and the deployment was triggered.
C21_SuccessOnlyWhenPublished ==
    status = 200 => (wf_published.created /\ wf_published.deployed)

\* C23 (as claimed): after any sequence of runs every record in the
\* persisted index is the metadata of a post that was published: its
\* document was created in the document store.
C23_IndexedArePublished ==
    (\A r \in Procs : pc[r] = "idle")
    => \A i \in 1..Len(index_file) : index_file[i].slug \in documents

\* C24: within publish_to_sanity the post document create is attempted only
\* after the author upsert has succeeded (when the upsert fails no create is
\* attempted and False is returned), the webhook is called only after the
\* create has succeeded, and True is returned only if the create succeeded
\* and the webhook succeeded or is not configured (was not called).
C24_MutationsOrdered ==
    \A r \in Procs :
        /\ calls[r]["create"] > 0 => "author" \in succeeded[r]
        /\ (Finished(r) /\ calls[r]["author"] = 1 /\ "author" \notin succeeded[r])
           => (calls[r]["create"] = 0 /\ result[r] = "False")
        /\ calls[r]["webhook"] > 0 => "create" \in succeeded[r]
        /\ (Finished(r) /\ result[r] = "True")
           => /\ "create" \in succeeded[r]
              /\ calls[r]["webhook"] = 0 \/ "webhook" \in succeeded[r]

\* the second of two runs returned True after a second create attempt and a
\* successful webhook; the first run had stopped before the index was written
C24_Witness ==
    \E r \in Procs :
        /\ Finished(r) /\ result[r] = "True"
        /\ calls[r]["create"] = 2 /\ "webhook" \in succeeded[r]
        /\ runs = 2 /\ Len(index_file) = 1

\* both calls have saved the index and both had loaded the same one: each
\* loaded before the other saved
BothSaved(r, q) ==
    /\ r # q
    /\ pc[r] \in {"create", "webhook"}
    /\ pc[q] \in {"create", "webhook"}
    /\ Front(index[r]) = Front(index[q])

\* C22: with two runs interleaved on the same index file, both loading
\* before either saves, a lost update is reachable (C22_Witness: the
\* persisted index holds the record of only one of the two runs, and both
\* were assigned the same slug).  Moreover an update is lost whenever the
\* two runs load before either saves: the persisted index never holds both
\* records (it is the loaded index with the record of one run, or the file
\* cannot be read: the index is then empty, or the next load raises), and
\* two runs that ask for the same slug are both assigned it.
C22_LostUpdate ==
    \A r, q \in Procs :
        BothSaved(r, q)
        => /\ \/ file_type = "list" /\ index_file \in {index[r], index[q]}
              \/ file_type \in {"corrupt", "undecodable"} /\ index_file = <<>>
           /\ Len(index_file) <= Len(Front(index[r])) + 1
           /\ desired[r] = desired[q] => seo_meta[r].slug = seo_meta[q].slug

\* two overlapping runs for the same title were both given the slug
\* how-voice-ai-handles-support and the index holds one record
C22_Witness ==
    /\ BothSaved(1, 2)
    /\ file_type = "list"
    /\ index_file \in {index[1], index[2]}
    /\ seo_meta[1].slug = SlugHow
    /\ seo_meta[2].slug = SlugHow
    /\ Len(index_file) = 1

\* C25: in every pipeline run the body handed to enhance_post by
\* publish_to_sanity is the empty string: it is read from the key
\* plain_text_body, which generate_blog_post never sets (it stores
\* portable_text_body and deletes body_markdown); hence reading_time is 1,
\* the table of contents is empty and the keywords are those of the title
\* alone.
C25_BodyNeverReachesEnhance ==
    /\ gp_pc \in {"generated", "enhanced", "ValueError"}
       => /\ "plain_text_body" \notin DOMAIN generated_data
          /\ "body_markdown" \notin DOMAIN generated_data
          /\ "portable_text_body" \in DOMAIN generated_data
    /\ gp_pc \in {"enhanced", "ValueError"} => gp_post.content = <<>>
    /\ gp_pc = "enhanced"
       => /\ gp_meta.reading_time = 1
          /\ gp_meta.toc = <<>>
          /\ gp_meta.keywords
               = extract_keyword_candidates(gp_meta.title, <<>>, DefaultMaxTerms)

\* a response with a heading and 400 words of body was enriched: from its
\* body the reading time would be 2 and the table of contents not empty
C25_Witness ==
    /\ gp_pc = "enhanced"
    /\ estimate_reading_time(gp_response.body_markdown) = 2
    /\ extract_headings_for_toc(gp_response.body_markdown) # <<>>
    /\ Len(generated_data.portable_text_body) > 1
    /\ gp_meta.keywords # <<>>

====
